---- MODULE Spec2Model ----
(***************************************************************************)
(* A model of threeal/cache-action: the chunked byte-range transfer        *)
(* (src/api/download.ts, src/utils/api.ts), the HTTP helpers               *)
(* (utils/http.ts), the two control-plane clients and the save/restore     *)
(* orchestrator (src/lib.ts, src/lib/cache.ts).                            *)
(***************************************************************************)
EXTENDS Integers, Sequences, FiniteSets, TLC

(***************************************************************************)
(* Bounds of the model.                                                    *)
(***************************************************************************)
\* longest remote or local file, in bytes
MaxFileLen == 3
\* largest options.maxChunkSize tried
MaxChunk == 2

\* byte values of file contents; 0 is the zero fill of a hole in a file
Bytes == {1, 2}

Min(a, b) == IF a < b THEN a ELSE b
Max(a, b) == IF a > b THEN a ELSE b

\* every byte sequence of length 0..n
RECURSIVE SeqsUpTo(_)
SeqsUpTo(n) ==
    IF n = 0 THEN {<< >>}
    ELSE LET shorter == SeqsUpTo(n - 1)
         IN shorter \cup {Append(s, b) : s \in {t \in shorter : Len(t) = n - 1}, b \in Bytes}

Files == SeqsUpTo(MaxFileLen)
ChunkSizes == 1..MaxChunk

(***************************************************************************)
(* JavaScript values.                                                      *)
(***************************************************************************)
\* Number.parseInt of a header that is absent or not a number
NaN == -1

\* s.includes(sub)
Includes(s, sub) ==
    \E i \in 1..(Len(s) - Len(sub) + 1) : SubSeq(s, i, i + Len(sub) - 1) = sub

\* Number.parseInt(headers[name]): the number a decimal header value denotes;
\* NaN when the header is absent (parseInt(undefined))
ParseIntHeader(headers, name) ==
    IF name \notin DOMAIN headers THEN NaN
    ELSE LET s == headers[name]
         IN IF \E n \in 0..(MaxFileLen + 1) : ToString(n) = s
            THEN CHOOSE n \in 0..(MaxFileLen + 1) : ToString(n) = s
            ELSE NaN

\* a < b of two JavaScript numbers: false whenever one of them is NaN
JsLess(a, b) == a # NaN /\ b # NaN /\ a < b

(***************************************************************************)
(* HTTP helpers (utils/http.ts).  A message is a record                    *)
(* [statusCode, headers, body]; headers is a function of the header names  *)
(* that are present.                                                       *)
(***************************************************************************)
NoHeaders == [h \in {} |-> ""]
ContentType(t) == [h \in {"content-type"} |-> t]

\* new Error(message) and the errors the runtime itself throws
MkError(message) == [name |-> "Error", message |-> message]
SyntaxError == [name |-> "SyntaxError", message |-> "Unexpected token in JSON"]
TypeError == [name |-> "TypeError", message |-> "Cannot use 'in' operator"]
BodyUsedError == [name |-> "TypeError", message |-> "Body has already been read"]
NoError == [name |-> "none", message |-> ""]

\* JavaScript values: null, a string, or an object with its fields
NoFields == [f \in {} |-> ""]
JsNull == [type |-> "null", fields |-> NoFields]
JsString == [type |-> "string", fields |-> NoFields]
JsObject(fields) == [type |-> "object", fields |-> fields]

\* JSON.parse(text) for the documents the model sends: [ok |-> TRUE, value];
\* any other text is not JSON and JSON.parse throws a SyntaxError (ok = FALSE)
JsonParse(text) ==
    CASE text = "{\"message\":\"an error\"}" ->
           [ok |-> TRUE, value |-> JsObject([f \in {"message"} |-> "an error"])]
      [] text = "{\"msg\":\"an error\"}" ->
           [ok |-> TRUE, value |-> JsObject([f \in {"msg"} |-> "an error"])]
      [] text = "{}" ->
           [ok |-> TRUE, value |-> JsObject(NoFields)]
      [] text = "null" ->
           [ok |-> TRUE, value |-> JsNull]
      [] text = "\"an error\"" ->
           [ok |-> TRUE, value |-> JsString]
      [] text = "{\"archiveLocation\":\"url\"}" ->
           [ok |-> TRUE, value |-> JsObject([f \in {"archiveLocation"} |-> "url"])]
      [] text = "{\"cacheId\":1}" ->
           [ok |-> TRUE, value |-> JsObject([f \in {"cacheId"} |-> 1])]
      [] text = "{\"ok\":true,\"signed_download_url\":\"url\"}" ->
           [ok |-> TRUE, value |-> JsObject([f \in {"ok", "signed_download_url"} |->
                                               IF f = "ok" THEN TRUE ELSE "url"])]
      [] text = "{\"ok\":true,\"signed_upload_url\":\"url\"}" ->
           [ok |-> TRUE, value |-> JsObject([f \in {"ok", "signed_upload_url"} |->
                                               IF f = "ok" THEN TRUE ELSE "url"])]
      [] text = "{\"ok\":true}" ->
           [ok |-> TRUE, value |-> JsObject([f \in {"ok"} |-> TRUE])]
      [] text = "{\"ok\":false}" ->
           [ok |-> TRUE, value |-> JsObject([f \in {"ok"} |-> FALSE])]
      [] OTHER ->
           [ok |-> FALSE, value |-> JsNull]

\* typeof data: typeof null is "object"
TypeOf(data) == IF data.type \in {"object", "null"} THEN "object" ELSE data.type

\* body.match(/<Message>(.*?)<\/Message>/s): the text between the leftmost
\* <Message> and the first </Message> after it
XmlOpen == "<Message>"
XmlClose == "</Message>"
XmlOpens(text) ==
    {i \in 1..(Len(text) - Len(XmlOpen) + 1) :
        SubSeq(text, i, i + Len(XmlOpen) - 1) = XmlOpen}
XmlCloses(text, from) ==
    {j \in from..(Len(text) - Len(XmlClose) + 1) :
        SubSeq(text, j, j + Len(XmlClose) - 1) = XmlClose}
MinOf(S) == CHOOSE x \in S : \A y \in S : x <= y
MatchMessage(text) ==
    IF XmlOpens(text) = {} THEN [matched |-> FALSE, group |-> ""]
    ELSE LET from == MinOf(XmlOpens(text)) + Len(XmlOpen)
         IN IF XmlCloses(text, from) = {} THEN [matched |-> FALSE, group |-> ""]
            ELSE [matched |-> TRUE,
                  group |-> SubSeq(text, from, MinOf(XmlCloses(text, from)) - 1)]

\* `${text} (${statusCode})`
FormatError(text, statusCode) == text \o " (" \o ToString(statusCode) \o ")"

\* the last statement of readErrorIncomingMessage: the raw body, or
\* "unknown error" when the body is empty
\* RawBodyErrorVerbatim is the statement of the earlier utils/http.ts, which
\* used the body as it is.
RawBodyErrorVerbatim(msg) ==
    MkError(FormatError(msg.body, msg.statusCode))
RawBodyError(msg) ==
    LET err == IF Len(msg.body) > 0 THEN msg.body ELSE "unknown error"
    IN MkError(FormatError(err, msg.statusCode))

\* readErrorIncomingMessage(msg): [thrown |-> FALSE, error |-> e] when it
\* resolves to e, [thrown |-> TRUE, error |-> e] when it rejects with e
ReadErrorIncomingMessage(msg) ==
    IF "content-type" \in DOMAIN msg.headers
    THEN LET contentType == msg.headers["content-type"]
         IN IF Includes(contentType, "application/json")
            THEN LET data == JsonParse(msg.body)
                 IN IF ~data.ok THEN [thrown |-> TRUE, error |-> SyntaxError]
                    ELSE IF TypeOf(data.value) = "object"
                    THEN IF data.value = JsNull
                         THEN [thrown |-> TRUE, error |-> TypeError]
                         ELSE IF "message" \in DOMAIN data.value.fields
                         THEN [thrown |-> FALSE,
                               error |-> MkError(FormatError(data.value.fields["message"],
                                                             msg.statusCode))]
                         ELSE [thrown |-> FALSE, error |-> RawBodyError(msg)]
                    ELSE [thrown |-> FALSE, error |-> RawBodyError(msg)]
            ELSE IF Includes(contentType, "application/xml")
            THEN LET data == MatchMessage(msg.body)
                 IN IF data.matched
                    THEN [thrown |-> FALSE,
                          error |-> MkError(FormatError(data.group, msg.statusCode))]
                    ELSE [thrown |-> FALSE, error |-> RawBodyError(msg)]
            ELSE [thrown |-> FALSE, error |-> RawBodyError(msg)]
    ELSE [thrown |-> FALSE, error |-> RawBodyError(msg)]

\* `throw await readErrorIncomingMessage(res)`: the error the caller raises
ThrowReadError(msg) == ReadErrorIncomingMessage(msg).error

\* assertIncomingMessageContentType(msg, expectedType): the error it throws,
\* or "none".
\* AssertNoContentType is the function that accepts every message.
AssertNoContentType(msg, expectedType) == [thrown |-> FALSE, error |-> MkError("")]
AssertIncomingMessageContentType(msg, expectedType) ==
    LET actualType == IF "content-type" \in DOMAIN msg.headers
                      THEN msg.headers["content-type"] ELSE "undefined"
    IN IF ~Includes(actualType, expectedType)
       THEN [thrown |-> TRUE,
             error |-> MkError("expected content type to be '" \o expectedType
                               \o "', but instead got '" \o actualType \o "'")]
       ELSE [thrown |-> FALSE, error |-> MkError("")]

(***************************************************************************)
(* The control-plane clients.  Each takes the response of its request and  *)
(* yields what the call does with it: Return(value) or Throw(error).       *)
(***************************************************************************)
Return(value) == [threw |-> FALSE, value |-> value, error |-> NoError]
Throw(error) == [threw |-> TRUE, value |-> JsNull, error |-> error]

\* readJsonIncomingMessage(msg)
ReadJsonIncomingMessage(msg) ==
    LET typeCheck == AssertIncomingMessageContentType(msg, "application/json")
    IN IF typeCheck.thrown THEN Throw(typeCheck.error)
       ELSE LET data == JsonParse(msg.body)
            IN IF data.ok THEN Return(data.value) ELSE Throw(SyntaxError)

\* requestGetCache(key, version) (utils/api.ts)
RequestGetCache(res) ==
    CASE res.statusCode = 200 -> ReadJsonIncomingMessage(res)
      [] res.statusCode = 204 -> Return(JsNull)
      [] OTHER -> Throw(ThrowReadError(res))

\* requestReserveCache(key, version, size): the cacheId, or null.
\* ReserveWithoutConflict is the call without its 409 case.
ReserveWithoutConflict(res) ==
    CASE res.statusCode = 201 -> ReadJsonIncomingMessage(res)
      [] OTHER -> Throw(ThrowReadError(res))
RequestReserveCache(res) ==
    CASE res.statusCode = 201 -> ReadJsonIncomingMessage(res)
      [] res.statusCode = 409 -> Return(JsNull)
      [] OTHER -> Throw(ThrowReadError(res))

\* requestCommitCache(id, size).
\* CommitExpectsOk is the call with 200 as its success status.
CommitExpectsOk(res) ==
    IF res.statusCode # 200 THEN Throw(ThrowReadError(res))
    ELSE Return(JsObject(NoFields))
RequestCommitCache(res) ==
    IF res.statusCode # 204 THEN Throw(ThrowReadError(res))
    ELSE Return(JsObject(NoFields))

\* Response.ok of the fetch API
ResponseOk(res) == res.statusCode \in 200..299

\* handleCacheServiceError(res) (internal/api.ts): it throws, or it RETURNS
\* the error of a JSON body with a `msg`; bodyUsed tells whether res.json()
\* has consumed the body
HandleCacheServiceError(res) ==
    LET fallback == MkError(FormatError(res.statusText, res.statusCode))
    IN IF "content-type" \in DOMAIN res.headers
          /\ Includes(res.headers["content-type"], "application/json")
       THEN LET data == JsonParse(res.body)
            IN IF ~data.ok
               THEN [threw |-> TRUE, error |-> SyntaxError, bodyUsed |-> TRUE]
               ELSE IF TypeOf(data.value) = "object" /\ data.value # JsNull
                       /\ "msg" \in DOMAIN data.value.fields
               THEN [threw |-> FALSE, bodyUsed |-> TRUE,
                     error |-> MkError(FormatError(data.value.fields["msg"],
                                                   res.statusCode))]
               ELSE [threw |-> TRUE, error |-> fallback, bodyUsed |-> TRUE]
       ELSE [threw |-> TRUE, error |-> fallback, bodyUsed |-> FALSE]

\* await res.json(): a body can be read once
ResponseJson(res, bodyUsed) ==
    IF bodyUsed THEN Throw(BodyUsedError)
    ELSE LET data == JsonParse(res.body)
         IN IF data.ok THEN Return(data.value) ELSE Throw(SyntaxError)

\* `if (!res.ok) await handleCacheServiceError(res); return await res.json()`
JsonOrServiceError(res) ==
    IF ~ResponseOk(res)
    THEN LET handled == HandleCacheServiceError(res)
         IN IF handled.threw THEN Throw(handled.error)
            ELSE ResponseJson(res, handled.bodyUsed)
    ELSE ResponseJson(res, FALSE)

\* getCacheEntryDownloadUrl(key, version)
GetCacheEntryDownloadUrl(res) == JsonOrServiceError(res)

\* createCacheEntry(key, version): 409 is { ok: false }.
\* CreateCacheEntryWithoutConflict has no branch for 409: it is an error
\* like every other non-2xx status
CreateCacheEntryWithoutConflict(res) == JsonOrServiceError(res)
CreateCacheEntry(res) ==
    IF ~ResponseOk(res) /\ res.statusCode = 409
    THEN Return(JsObject([f \in {"ok", "signed_upload_url"} |->
                             IF f = "ok" THEN FALSE ELSE ""]))
    ELSE JsonOrServiceError(res)

\* finalizeCacheEntryUpload(key, version, sizeBytes)
FinalizeCacheEntryUpload(res) == JsonOrServiceError(res)

(***************************************************************************)
(* State.                                                                  *)
(***************************************************************************)
VARIABLES
    \* the remote cache service, for one (key, version)
    svEntry,      \* "absent", "reserved" or "committed"
    svData,       \* the bytes of the entry's blob
    svCommittedBy,\* the invocation whose finalize committed the entry, or 0
    \* downloadFile (utils/download.ts)
    dlChunkSize,  \* options.maxChunkSize
    dlPc,         \* "opening", "transferring", "closing", "resolved", "rejected"
    dlOpen,       \* fsPromises.open(savePath, "w"): "pending", "open", "closed"
    dlProbe,      \* getDownloadFileSize(url): "pending", "ok", "failed"
    dlFileSize,   \* fileSize
    dlDest,       \* savePath on disk: [exists, data]
    dlRanges,     \* the ranges of the requests the loop sent, in order
    dlChunk,      \* per range: "sent", "buffered", "written", "rejected"
    dlBuffer,     \* per range: the buffer read from the response
    dlError,      \* the error downloadFile rejected with
    dlFailed,     \* for the properties: <<range, error>> of each rejected range, in order
    dlType,       \* for the properties: the content-type each range's response carried
    \* requestUploadCache (utils/api.ts)
    ulFile,       \* the bytes of filePath
    ulFileSize,   \* fileSize
    ulChunkSize,  \* options.maxChunkSize
    ulPc,         \* "called", "transferring", "resolved", "rejected"
    ulRanges,     \* the ranges of the requests the loop sent, in order
    ulChunk,      \* per range: "sent", "resolved", "rejected"
    ulRequests,   \* per range: the request the server received
    ulCache,      \* the server's buffer of the cache being uploaded
    ulError,      \* the error requestUploadCache rejected with
    ulFailed,     \* for the properties: <<range, error>> of each rejected range, in order
    \* one call of a control-plane client or of readErrorIncomingMessage
    rsCall,       \* the function called
    rsRes,        \* the response it receives
    rsDone,       \* whether the call has settled
    rsOut,        \* what it returned or threw
    \* restoreCache and saveCache (lib.ts, lib/cache.ts)
    caVariant,    \* which lib: "reserve-commit" (lib.ts) or "signed-url" (lib/cache.ts)
    fsFile,       \* the cached path on the local disk: [exists, data]
    fsInit,       \* fsFile before any invocation
    inv,          \* per invocation: its operation, position and locals
    \* createArchive and extractArchive (utils/archive.ts)
    arFs,         \* the files on disk: path -> content, or "absent"
    arSaved,      \* arFs when the archive was created
    arPaths,      \* filePaths
    arArchive,    \* the bytes of archivePath: [written, frames]
    arPc,         \* "create", "created", "extracted", "failed"
    \* the two child processes of createArchive or extractArchive (internal/cmd)
    prOp,         \* "createArchive" or "extractArchive"
    prProc,       \* per process: [state, code, chunks], chunks being its stderr
    prWait,       \* per process: the promise of waitProcess, [state, error]
    prAll,        \* the promise of Promise.all over both, [state, error]
    \* the main step of the action (action/main.ts)
    mnPc,         \* "idle", "restoring", "writing", "done", "exited"
    mnOutput,     \* the line for `restored` in GITHUB_OUTPUT, or "unset"
    mnState,      \* the line for `restored` in GITHUB_STATE, or "unset"
    \* the post step of the action (action/post.ts)
    poPc,         \* "idle", "waiting", "start", "saving", "skipped", "done", "exited"
    poEnv         \* STATE_restored in the environment of the post step

svVars == <<svEntry, svData, svCommittedBy>>
dlVars == <<dlChunkSize, dlPc, dlOpen, dlProbe, dlFileSize, dlDest,
            dlRanges, dlChunk, dlBuffer, dlError, dlFailed, dlType>>
rsVars == <<rsCall, rsRes, rsDone, rsOut>>
caVars == <<caVariant, fsFile, fsInit, inv>>
prVars == <<prOp, prProc, prWait, prAll>>
arVars == <<arFs, arSaved, arPaths, arArchive, arPc, prVars>>
mnVars == <<mnPc, mnOutput, mnState, poPc, poEnv>>
ulVars == <<ulFile, ulFileSize, ulChunkSize, ulPc, ulRanges, ulChunk,
            ulRequests, ulCache, ulError, ulFailed>>

(***************************************************************************)
(* The files the transfers read and write.                                 *)
(***************************************************************************)
NoFile == [exists |-> FALSE, data |-> << >>]
\* a file left at savePath by an earlier run, longer than any remote file
StaleFile == [exists |-> TRUE, data |-> [i \in 1..(MaxFileLen + 1) |-> 2]]

\* file.write(buffer, 0, buffer.length, position): the file afterwards; a
\* write past the end leaves a hole of zero bytes
WriteAt(data, buffer, position) ==
    IF Len(buffer) = 0 THEN data
    ELSE [i \in 1..Max(Len(data), position + Len(buffer)) |->
            IF i > position /\ i <= position + Len(buffer) THEN buffer[i - position]
            ELSE IF i <= Len(data) THEN data[i]
            ELSE 0]

\* the bytes first..last (inclusive, counted from 0) of a file, as an HTTP
\* server serves a byte range and as fs.createReadStream(path, {start, end})
\* reads it: both stop at the end of the file
ByteSlice(data, first, last) == SubSeq(data, first + 1, Min(last, Len(data) - 1) + 1)

(***************************************************************************)
(* The transfer plan: the loop                                             *)
(*   for (let start = 0; start < fileSize; start += maxChunkSize)          *)
(* with  end = Math.min(start + maxChunkSize - 1, fileSize).               *)
(***************************************************************************)
\* RangeEndInsideFile clamps to the offset of the last byte.
\* RangeEndAtNextStart names the start of the next chunk.
\* RangeEndAtFileEnd asks for the rest of the file in every range.
RangeEndAtFileEnd(start, maxChunkSize, fileSize) == fileSize
RangeEndInsideFile(start, maxChunkSize, fileSize) ==
    Min(start + maxChunkSize - 1, fileSize - 1)
RangeEndAtNextStart(start, maxChunkSize, fileSize) ==
    Min(start + maxChunkSize, fileSize)
RangeEnd(start, maxChunkSize, fileSize) == Min(start + maxChunkSize - 1, fileSize)

RECURSIVE PlanFrom(_, _, _)
PlanFrom(start, fileSize, maxChunkSize) ==
    IF JsLess(start, fileSize)
    THEN <<[start |-> start, end |-> RangeEnd(start, maxChunkSize, fileSize)]>>
         \o PlanFrom(start + maxChunkSize, fileSize, maxChunkSize)
    ELSE << >>

\* PlanAtLeastOnce is the loop with its test after the body (do ... while).
PlanAtLeastOnce(fileSize, maxChunkSize) ==
    <<[start |-> 0, end |-> RangeEnd(0, maxChunkSize, fileSize)]>>
    \o PlanFrom(maxChunkSize, fileSize, maxChunkSize)
PlanRanges(fileSize, maxChunkSize) == PlanFrom(0, fileSize, maxChunkSize)

(***************************************************************************)
(* downloadFile(url, savePath, {maxChunkSize}).                            *)
(***************************************************************************)
\* what the server may answer to the HEAD request: 200 with or without a
\* content-length header, or an error; always an error for a blob that is
\* not committed
HeadResponses(file, committed) ==
    { res \in
        { [statusCode |-> 200, body |-> "",
           headers |-> [h \in {"content-length"} |-> ToString(Len(file))]],
          [statusCode |-> 200, body |-> "", headers |-> NoHeaders],
          [statusCode |-> 404, body |-> "", headers |-> NoHeaders] } :
        committed \/ res.statusCode # 200 }

\* what the server may answer to GET with `range: bytes=<start>-<end>`: the
\* bytes of the range, the same with another content type or with none, or
\* an error
RangeResponses(file, range) ==
    { [statusCode |-> 206, headers |-> ContentType("application/octet-stream"),
       body |-> ByteSlice(file, range.start, range.end)],
      [statusCode |-> 206, headers |-> ContentType("text/html"),
       body |-> ByteSlice(file, range.start, range.end)],
      [statusCode |-> 206, headers |-> NoHeaders,
       body |-> ByteSlice(file, range.start, range.end)],
      [statusCode |-> 500, headers |-> NoHeaders, body |-> "internal server error"] }

\* the position of file.write(buffer, 0, buffer.length, start).
\* WriteAtFileStart is file.write(buffer) on a file just opened: position 0
WriteAtFileStart(range) == 0
WritePosition(range) == range.start

\* fsPromises.open(savePath, "w") resolves: the file exists and is empty
DownloadOpenFile ==
    /\ dlOpen = "pending"
    /\ dlOpen' = "open"
    /\ dlDest' = [exists |-> TRUE, data |-> << >>]
    /\ UNCHANGED <<dlChunkSize, dlPc, dlProbe, dlFileSize, dlRanges,
                   dlChunk, dlBuffer, dlError, dlFailed, dlType>>
    /\ UNCHANGED <<svVars, ulVars, rsVars, caVars, arVars, mnVars>>

\* getDownloadFileSize(url) settles, and with it Promise.all when it rejects
GetDownloadFileSize ==
    /\ dlProbe = "pending"
    /\ \E res \in HeadResponses(svData, svEntry = "committed") :
         IF res.statusCode = 200
         THEN /\ dlProbe' = "ok"
              /\ dlFileSize' = ParseIntHeader(res.headers, "content-length")
              /\ UNCHANGED <<dlPc, dlError, dlFailed, dlType>>
         ELSE /\ dlProbe' = "failed"
              /\ dlPc' = "rejected"
              /\ dlError' = ThrowReadError(res)
              /\ UNCHANGED <<dlFileSize, dlFailed, dlType>>
    /\ UNCHANGED <<dlChunkSize, dlOpen, dlDest, dlRanges, dlChunk, dlBuffer>>
    /\ UNCHANGED <<svVars, ulVars, rsVars, caVars, arVars, mnVars>>

\* Promise.all([open, getDownloadFileSize]) resolved: the loop sends one
\* ranged GET per chunk, all at once
DownloadDispatch ==
    /\ dlPc = "opening"
    /\ dlOpen = "open"
    /\ dlProbe = "ok"
    /\ dlRanges' = PlanRanges(dlFileSize, dlChunkSize)
    /\ dlChunk' = [i \in 1..Len(dlRanges') |-> "sent"]
    /\ dlBuffer' = [i \in 1..Len(dlRanges') |-> << >>]
    /\ dlType' = [i \in 1..Len(dlRanges') |-> "pending"]
    /\ dlPc' = "transferring"
    /\ UNCHANGED <<dlChunkSize, dlOpen, dlProbe, dlFileSize, dlDest, dlError, dlFailed>>
    /\ UNCHANGED <<svVars, ulVars, rsVars, caVars, arVars, mnVars>>

\* Promise.all(proms) settles with the first of its promises to reject: a
\* rejection after that one changes nothing.
\* LastRejection is a join that reports the latest rejection.
LastRejection(settled, reported, err) == err
FirstRejection(settled, reported, err) == IF settled THEN reported ELSE err

\* a request that was sent stays in flight whatever became of the call: no
\* AbortController or req.destroy() is anywhere in the transfer.
\* AbortedOnFailure is a transfer that aborts its requests once it has failed.
AbortedOnFailure(pc) == pc # "rejected"
InFlight(pc) == TRUE

\* the promise of range i rejects; Promise.all(proms) rejects with the
\* first rejection and downloadFile with it
DownloadRejectChunk(i, err) ==
    /\ dlChunk' = [dlChunk EXCEPT ![i] = "rejected"]
    /\ dlPc' = "rejected"
    /\ dlError' = FirstRejection(dlPc = "rejected", dlError, err)
    /\ dlFailed' = Append(dlFailed, <<i, err>>)
    /\ UNCHANGED dlBuffer

\* the response of range i arrives
DownloadRangeResponse(i) ==
    /\ i \in DOMAIN dlChunk
    /\ dlChunk[i] = "sent"
    /\ InFlight(dlPc)
    /\ \E res \in RangeResponses(svData, dlRanges[i]) :
         /\ dlType' = [dlType EXCEPT ![i] = IF "content-type" \in DOMAIN res.headers
                                            THEN res.headers["content-type"] ELSE "absent"]
         /\ IF res.statusCode = 206
            THEN LET typeCheck == AssertIncomingMessageContentType(res, "application/octet-stream")
                 IN IF typeCheck.thrown
                    THEN DownloadRejectChunk(i, typeCheck.error)
                    ELSE /\ dlChunk' = [dlChunk EXCEPT ![i] = "buffered"]
                         /\ dlBuffer' = [dlBuffer EXCEPT ![i] = res.body]
                         /\ UNCHANGED <<dlPc, dlError, dlFailed>>
            ELSE DownloadRejectChunk(i, ThrowReadError(res))
    /\ UNCHANGED <<dlChunkSize, dlOpen, dlProbe, dlFileSize, dlDest, dlRanges>>
    /\ UNCHANGED <<svVars, ulVars, rsVars, caVars, arVars, mnVars>>

\* file.write(buffer, 0, buffer.length, start) of range i
DownloadRangeWrite(i) ==
    /\ i \in DOMAIN dlChunk
    /\ dlChunk[i] = "buffered"
    /\ InFlight(dlPc)
    /\ dlOpen = "open"
    /\ dlDest' = [dlDest EXCEPT !.data = WriteAt(@, dlBuffer[i], WritePosition(dlRanges[i]))]
    /\ dlChunk' = [dlChunk EXCEPT ![i] = "written"]
    /\ UNCHANGED <<dlChunkSize, dlPc, dlOpen, dlProbe, dlFileSize,
                   dlRanges, dlBuffer, dlError, dlFailed, dlType>>
    /\ UNCHANGED <<svVars, ulVars, rsVars, caVars, arVars, mnVars>>

\* Promise.all(proms) resolves: every range is written
DownloadJoin ==
    /\ dlPc = "transferring"
    /\ \A i \in DOMAIN dlChunk : dlChunk[i] = "written"
    /\ dlPc' = "closing"
    /\ UNCHANGED <<dlChunkSize, dlOpen, dlProbe, dlFileSize, dlDest,
                   dlRanges, dlChunk, dlBuffer, dlError, dlFailed, dlType>>
    /\ UNCHANGED <<svVars, ulVars, rsVars, caVars, arVars, mnVars>>

\* file.close(), then downloadFile resolves
DownloadClose ==
    /\ dlPc = "closing"
    /\ dlOpen' = "closed"
    /\ dlPc' = "resolved"
    /\ UNCHANGED <<dlChunkSize, dlProbe, dlFileSize, dlDest,
                   dlRanges, dlChunk, dlBuffer, dlError, dlFailed, dlType>>
    /\ UNCHANGED <<svVars, ulVars, rsVars, caVars, arVars, mnVars>>

DownloadNext ==
    \/ DownloadOpenFile
    \/ GetDownloadFileSize
    \/ DownloadDispatch
    \/ \E i \in 1..(MaxFileLen + 1) : DownloadRangeResponse(i)
    \/ \E i \in 1..(MaxFileLen + 1) : DownloadRangeWrite(i)
    \/ DownloadJoin
    \/ DownloadClose

(***************************************************************************)
(* requestUploadCache(id, filePath, fileSize, {maxChunkSize}).             *)
(***************************************************************************)
\* sendStreamRequest: the Content-Range header, `bytes ${start}-${end}/*`
ContentRange(start, end) ==
    "bytes " \o ToString(start) \o "-" \o ToString(end) \o "/*"

\* the start offset a server reads back from a Content-Range header
ContentRangeStart(header) ==
    CHOOSE start \in 0..(MaxFileLen + 1) :
        \E end \in 0..(MaxFileLen + MaxChunk + 1) : header = ContentRange(start, end)

\* the PATCH request of one range: sendStreamRequest(req, bin, start, end)
\* with bin = fs.createReadStream(filePath, {start, end}).
\* UploadRequestWholeFile is the request of a stream opened without `start`.
UploadRequestWholeFile(file, range) ==
    [headers |-> [h \in {"content-type", "content-range"} |->
                     IF h = "content-type" THEN "application/octet-stream"
                     ELSE ContentRange(range.start, range.end)],
     body |-> ByteSlice(file, 0, range.end)]
UploadRequest(file, range) ==
    [headers |-> [h \in {"content-type", "content-range"} |->
                     IF h = "content-type" THEN "application/octet-stream"
                     ELSE ContentRange(range.start, range.end)],
     body |-> ByteSlice(file, range.start, range.end)]

\* the server stores the body of a request at the start of its Content-Range
StoreChunk(cache, req) ==
    WriteAt(cache, req.body, ContentRangeStart(req.headers["content-range"]))

\* what the server may answer to a PATCH it did not store
UploadFaults ==
    { [statusCode |-> 500, headers |-> NoHeaders, body |-> "internal server error"],
      [statusCode |-> 400, headers |-> ContentType("application/json"),
       body |-> "{\"message\":\"an error\"}"] }

\* the loop sends one PATCH per chunk, all at once
UploadDispatch ==
    /\ ulPc = "called"
    /\ ulRanges' = PlanRanges(ulFileSize, ulChunkSize)
    /\ ulChunk' = [i \in 1..Len(ulRanges') |-> "sent"]
    /\ ulRequests' = [i \in 1..Len(ulRanges') |-> UploadRequest(ulFile, ulRanges'[i])]
    /\ ulPc' = "transferring"
    /\ UNCHANGED <<ulFile, ulFileSize, ulChunkSize, ulCache, ulError, ulFailed>>
    /\ UNCHANGED <<svVars, dlVars, rsVars, caVars, arVars, mnVars>>

\* the server stores range i and answers 204
UploadChunkStored(i) ==
    /\ i \in DOMAIN ulChunk
    /\ ulChunk[i] = "sent"
    /\ InFlight(ulPc)
    /\ ulCache' = StoreChunk(ulCache, ulRequests[i])
    /\ ulChunk' = [ulChunk EXCEPT ![i] = "resolved"]
    /\ UNCHANGED <<ulFile, ulFileSize, ulChunkSize, ulPc, ulRanges, ulRequests, ulError, ulFailed>>
    /\ UNCHANGED <<svVars, dlVars, rsVars, caVars, arVars, mnVars>>

\* the server answers range i with an error; Promise.all(proms) rejects with
\* the first rejection and requestUploadCache with it
UploadChunkFailed(i) ==
    /\ i \in DOMAIN ulChunk
    /\ ulChunk[i] = "sent"
    /\ InFlight(ulPc)
    /\ \E res \in UploadFaults :
         /\ ulPc' = "rejected"
         /\ ulError' = FirstRejection(ulPc = "rejected", ulError, ThrowReadError(res))
         /\ ulFailed' = Append(ulFailed, <<i, ThrowReadError(res)>>)
    /\ ulChunk' = [ulChunk EXCEPT ![i] = "rejected"]
    /\ UNCHANGED <<ulFile, ulFileSize, ulChunkSize, ulRanges, ulRequests, ulCache>>
    /\ UNCHANGED <<svVars, dlVars, rsVars, caVars, arVars, mnVars>>

\* Promise.all(proms) resolves: every range was answered 204
UploadJoin ==
    /\ ulPc = "transferring"
    /\ \A i \in DOMAIN ulChunk : ulChunk[i] = "resolved"
    /\ ulPc' = "resolved"
    /\ UNCHANGED <<ulFile, ulFileSize, ulChunkSize, ulRanges, ulChunk,
                   ulRequests, ulCache, ulError, ulFailed>>
    /\ UNCHANGED <<svVars, dlVars, rsVars, caVars, arVars, mnVars>>

UploadNext ==
    \/ UploadDispatch
    \/ \E i \in 1..(MaxFileLen + 1) : UploadChunkStored(i)
    \/ \E i \in 1..(MaxFileLen + 1) : UploadChunkFailed(i)
    \/ UploadJoin

(***************************************************************************)
(* One control-plane call on one response.                                 *)
(***************************************************************************)
StatusCodes == {200, 201, 204, 404, 409, 500}
StatusText(statusCode) ==
    CASE statusCode = 200 -> "OK"
      [] statusCode = 201 -> "Created"
      [] statusCode = 204 -> "No Content"
      [] statusCode = 404 -> "Not Found"
      [] statusCode = 409 -> "Conflict"
      [] OTHER -> "Internal Server Error"

HeaderChoices ==
    {NoHeaders, ContentType("application/json; charset=utf-8"),
     ContentType("application/xml"), ContentType("text/plain")}

BodyChoices ==
    {"", "an error", "{\"message\":\"an error\"}", "{\"msg\":\"an error\"}", "{}",
     "null", "\"an error\"", "{\"message\":", "<?xml><Message>an error</Message>",
     "<Error><Code>Busy</Code></Error>", "<Message></Message>", "{\"archiveLocation\":\"url\"}",
     "{\"cacheId\":1}", "{\"ok\":true,\"signed_upload_url\":\"url\"}", "{\"ok\":false}"}

Responses ==
    {[statusCode |-> c, statusText |-> StatusText(c), headers |-> h, body |-> b] :
        c \in StatusCodes, h \in HeaderChoices, b \in BodyChoices}

LookupCalls == {"requestGetCache", "getCacheEntryDownloadUrl"}
ReserveCalls == {"requestReserveCache", "createCacheEntry"}
FinalizeCalls == {"requestCommitCache", "finalizeCacheEntryUpload"}
Calls == LookupCalls \cup ReserveCalls \cup FinalizeCalls \cup {"readErrorIncomingMessage"}

CallResult(call, res) ==
    CASE call = "requestGetCache" -> RequestGetCache(res)
      [] call = "requestReserveCache" -> RequestReserveCache(res)
      [] call = "requestCommitCache" -> RequestCommitCache(res)
      [] call = "getCacheEntryDownloadUrl" -> GetCacheEntryDownloadUrl(res)
      [] call = "createCacheEntry" -> CreateCacheEntry(res)
      [] call = "finalizeCacheEntryUpload" -> FinalizeCacheEntryUpload(res)
      [] OTHER -> LET read == ReadErrorIncomingMessage(res)
                  IN [threw |-> read.thrown, value |-> JsNull, error |-> read.error]

\* the response arrives and the call settles
ResponseArrives ==
    /\ ~rsDone
    /\ rsOut' = CallResult(rsCall, rsRes)
    /\ rsDone' = TRUE
    /\ UNCHANGED <<rsCall, rsRes>>
    /\ UNCHANGED <<svVars, dlVars, ulVars, caVars, arVars, mnVars>>

ResponseNext == ResponseArrives

(***************************************************************************)
(* restoreCache and saveCache, in both libs: lib.ts (reserve, chunked      *)
(* upload, commit) and lib/cache.ts (signed URLs, azcopy, finalize).       *)
(* The remote service handles each request atomically; a request it        *)
(* answers with a fault changes nothing on the remote.                     *)
(***************************************************************************)
Procs == {1, 2}
Variants == {"reserve-commit", "signed-url"}

\* the bytes of the cached path, when it exists
LocalData == [i \in 1..MaxFileLen |-> IF i % 2 = 1 THEN 1 ELSE 2]
LocalFile == [exists |-> TRUE, data |-> LocalData]

\* tar | zstd and zstd -d | tar: the archive of a file, and the file of an
\* archive
Compress(data) == [i \in 1..Len(data) |-> 3 - data[i]]
Extract(archive) == [i \in 1..Len(archive) |-> 3 - archive[i]]

\* tar exits with 2 on an empty stream ("This does not look like a tar
\* archive"), and zstd -d with 1 on an empty file
IsArchive(bytes) == Len(bytes) > 0

\* new ProcessError(args, code, output)
ProcessError(args) == [name |-> "ProcessError", message |-> "Process failed (1): " \o args]

JsonResponse(statusCode, body) ==
    [statusCode |-> statusCode, statusText |-> StatusText(statusCode),
     headers |-> ContentType("application/json"), body |-> body]
EmptyResponse(statusCode) ==
    [statusCode |-> statusCode, statusText |-> StatusText(statusCode),
     headers |-> NoHeaders, body |-> ""]

\* what the service may answer to a request it does not handle
ServiceFaults ==
    { [statusCode |-> 500, statusText |-> StatusText(500), headers |-> NoHeaders,
       body |-> "internal server error"],
      JsonResponse(500, "{\"message\":\"an error\"}"),
      JsonResponse(500, "{\"msg\":\"an error\"}") }

\* the answer to a lookup of an entry that is known (found) or not
LookupResponse(variant, found) ==
    IF variant = "reserve-commit"
    THEN IF found THEN JsonResponse(200, "{\"archiveLocation\":\"url\"}")
         ELSE EmptyResponse(204)
    ELSE IF found THEN JsonResponse(200, "{\"ok\":true,\"signed_download_url\":\"url\"}")
         ELSE JsonResponse(200, "{\"ok\":false}")

\* the answers to a reserve: granted, or refused because the entry exists
ReserveResponses(variant, granted) ==
    IF variant = "reserve-commit"
    THEN IF granted THEN {JsonResponse(201, "{\"cacheId\":1}")}
         ELSE {EmptyResponse(409)}
    ELSE IF granted THEN {JsonResponse(200, "{\"ok\":true,\"signed_upload_url\":\"url\"}")}
         ELSE {EmptyResponse(409), JsonResponse(200, "{\"ok\":false}")}

\* the answer to a commit or finalize the service has carried out (or, with
\* signed URLs, declined)
FinalizeResponse(variant, done) ==
    IF variant = "reserve-commit" THEN EmptyResponse(204)
    ELSE IF done THEN JsonResponse(200, "{\"ok\":true}")
         ELSE JsonResponse(200, "{\"ok\":false}")

\* getCache / getCacheEntryDownloadUrl, reserveCache / createCacheEntry,
\* commitCache / finalizeCacheEntryUpload
Lookup(variant, res) ==
    IF variant = "reserve-commit" THEN RequestGetCache(res)
    ELSE GetCacheEntryDownloadUrl(res)
Reserve(variant, res) ==
    IF variant = "reserve-commit" THEN RequestReserveCache(res)
    ELSE CreateCacheEntry(res)
Finalize(variant, res) ==
    IF variant = "reserve-commit" THEN RequestCommitCache(res)
    ELSE FinalizeCacheEntryUpload(res)

\* res.ok of a decoded reply, as the text of the JavaScript value
OkOf(value) ==
    IF "ok" \in DOMAIN value.fields
    THEN IF value.fields["ok"] THEN "true" ELSE "false"
    ELSE "undefined"

\* `if (cache === null) return false` and `if (!res.ok) return false`.
\* LookupNeverMissed is restoreCache without that line.
LookupNeverMissed(variant, value) == FALSE
LookupMissed(variant, value) ==
    IF variant = "reserve-commit" THEN value = JsNull
    ELSE OkOf(value) # "true"

\* `if (cacheId === null)` and the else of `if (res.ok)`.
\* ReserveNeverRefused is saveCache without that branch.
ReserveNeverRefused(variant, value) == FALSE
ReserveRefused(variant, value) ==
    IF variant = "reserve-commit" THEN value = JsNull
    ELSE OkOf(value) # "true"

\* what saveCache returns once finalize has resolved: `return true` after
\* commitCache, and `res.ok = ok; ... return res.ok`.
\* SaveResultOfCreate is saveCache without `res.ok = ok`.
SaveResultOfCreate(variant, created, finalized) ==
    IF variant = "reserve-commit" THEN "true" ELSE created
SaveResult(variant, created, finalized) ==
    IF variant = "reserve-commit" THEN "true" ELSE finalized

NewInvocation(op) ==
    [op |-> op, pc |-> "start", result |-> "pending", error |-> NoError,
     temp |-> "none", archive |-> << >>, size |-> 0, calls |-> {},
     ret |-> "none", lookup |-> "none", reserve |-> "none", finalize |-> "none",
     \* for the properties: the invocations that had returned true when this
     \* one started and the remote entry at that time, the bytes compress
     \* read, the cached path before and after extract, the step that failed
     after |-> {}, started |-> "none", source |-> << >>,
     before |-> NoFile, restored |-> << >>, failed |-> "none",
     \* the number of reserve calls made
     reserves |-> 0]

\* an awaited call rejects and no try/catch is around it: the invocation
\* rejects with the same error.
\* SwallowAsFalse is a `catch { return false }` around the call.
SwallowAsFalse(err) == [result |-> "false", error |-> NoError]
Propagate(err) == [result |-> "raised", error |-> err]

\* the invocations that have returned true
ReturnedTrue == {q \in DOMAIN inv : inv[q].result = "true"}

\* the invocation rejects: nothing after the failing await runs
Raise(p, err, call) ==
    inv' = [inv EXCEPT ![p].pc = "done", ![p].result = Propagate(err).result,
                       ![p].error = Propagate(err).error,
                       ![p].calls = @ \cup call]

\* download or extract of a restore rejects
RestoreStepFails(p, err, step) ==
    inv' = [inv EXCEPT ![p].pc = "done", ![p].result = Propagate(err).result,
                       ![p].error = Propagate(err).error,
                       ![p].calls = @ \cup {step}, ![p].failed = step]

\* the entries the remote reports to a lookup: finalize is "the call that
\* marks an uploaded blob as complete and visible to future lookups", so an
\* entry that is reserved and not finalized is reported as not found.
\* VisibleOnceReserved is a remote that reports an entry from its reservation
\* on, as the getCache of lib.test.ts does.
VisibleOnceReserved(entry) == entry # "absent"
VisibleToLookup(entry) == entry = "committed"

\* restoreCache: `await getCache(key, version)`, and the return on a miss
RestoreLookup(p) ==
    /\ inv[p].op = "restore" /\ inv[p].pc = "start"
    /\ \E res \in {LookupResponse(caVariant, VisibleToLookup(svEntry))}
                       \cup ServiceFaults :
         LET out == Lookup(caVariant, res)
             noEntry == svEntry = "absent" /\ res \notin ServiceFaults
         IN IF out.threw THEN Raise(p, out.error, {"lookup"})
            ELSE IF LookupMissed(caVariant, out.value)
            THEN inv' = [inv EXCEPT ![p].pc = "done", ![p].result = "false",
                                    ![p].after = ReturnedTrue, ![p].started = svEntry,
                                    ![p].calls = @ \cup {"lookup"},
                                    ![p].lookup = IF noEntry THEN "absent" ELSE "unready"]
            ELSE inv' = [inv EXCEPT ![p].pc = "mkdtemp",
                                    ![p].after = ReturnedTrue, ![p].started = svEntry,
                                    ![p].calls = @ \cup {"lookup"},
                                    ![p].lookup = IF noEntry THEN "absent" ELSE "found"]
    /\ UNCHANGED <<svVars, dlVars, ulVars, rsVars, caVariant, fsFile, fsInit, arVars, mnVars>>

\* saveCache starts at its first statement, mkdtemp
SaveStart(p) ==
    /\ inv[p].op = "save" /\ inv[p].pc = "start"
    /\ inv' = [inv EXCEPT ![p].pc = "mkdtemp", ![p].after = ReturnedTrue,
                          ![p].started = svEntry]
    /\ UNCHANGED <<svVars, dlVars, ulVars, rsVars, caVariant, fsFile, fsInit, arVars, mnVars>>

\* fsPromises.mkdtemp(path.join(os.tmpdir(), "temp-"))
Mkdtemp(p) ==
    /\ inv[p].pc = "mkdtemp"
    /\ inv' = [inv EXCEPT ![p].temp = "exists", ![p].calls = @ \cup {"mkdtemp"},
                          ![p].pc = IF inv[p].op = "save" THEN "compress" ELSE "download"]
    /\ UNCHANGED <<svVars, dlVars, ulVars, rsVars, caVariant, fsFile, fsInit, arVars, mnVars>>

\* restoreCache: downloadFile(cache.archiveLocation, archivePath) is called
RestoreDownload(p) ==
    /\ inv[p].pc = "download" /\ caVariant = "reserve-commit"
    /\ dlPc = "idle"
    /\ inv' = [inv EXCEPT ![p].pc = "downloading", ![p].calls = @ \cup {"download"}]
    /\ dlChunkSize' = MaxChunk
    /\ dlPc' = "opening" /\ dlOpen' = "pending" /\ dlProbe' = "pending"
    /\ dlDest' = NoFile
    /\ UNCHANGED <<dlFileSize, dlRanges, dlChunk, dlBuffer, dlError, dlFailed, dlType>>
    /\ UNCHANGED <<svVars, ulVars, rsVars, caVariant, fsFile, fsInit, arVars, mnVars>>

\* `await downloadFile(...)`: restoreCache goes on when the call has settled.
\* DownloadNotAwaited is the call without the await.
\* DownloadAwaitedUntilResolved is a wait that only a resolved download ends:
\* the rejection is never delivered to restoreCache.
DownloadNotAwaited(pc) == TRUE
DownloadAwaitedUntilResolved(pc) == pc = "resolved"
DownloadAwaited(pc) == pc \in {"resolved", "rejected"}

\* downloadFile settles
RestoreDownloaded(p) ==
    /\ inv[p].pc = "downloading"
    /\ DownloadAwaited(dlPc)
    /\ IF dlPc = "rejected" THEN RestoreStepFails(p, dlError, "download")
       ELSE inv' = [inv EXCEPT ![p].pc = "extract", ![p].archive = dlDest.data]
    /\ UNCHANGED <<svVars, dlVars, ulVars, rsVars, caVariant, fsFile, fsInit, arVars, mnVars>>

\* restoreCache: azureStorageCopy(res.signed_download_url, archivePath)
RestoreCopy(p) ==
    /\ inv[p].pc = "download" /\ caVariant = "signed-url"
    /\ \/ /\ svEntry = "committed"
          /\ inv' = [inv EXCEPT ![p].pc = "extract", ![p].archive = svData,
                                ![p].calls = @ \cup {"download"}]
       \/ RestoreStepFails(p, ProcessError("azcopy copy"), "download")
    /\ UNCHANGED <<svVars, dlVars, ulVars, rsVars, caVariant, fsFile, fsInit, arVars, mnVars>>

\* extractFiles(archivePath) / extractArchive(archivePath)
RestoreExtract(p) ==
    /\ inv[p].pc = "extract"
    /\ \/ /\ IsArchive(inv[p].archive)
          /\ inv' = [inv EXCEPT ![p].pc = "cleanup", ![p].ret = "true",
                                ![p].before = fsFile,
                                ![p].restored = Extract(inv[p].archive),
                                ![p].calls = @ \cup {"extract"}]
          /\ fsFile' = [exists |-> TRUE, data |-> Extract(inv[p].archive)]
       \/ /\ RestoreStepFails(p, ProcessError("tar -xf"), "extract")
          /\ UNCHANGED fsFile
    /\ UNCHANGED <<svVars, dlVars, ulVars, rsVars, caVariant, fsInit, arVars, mnVars>>

\* compressFiles(archivePath, filePaths) / createArchive(archivePath, filePaths)
SaveCompress(p) ==
    /\ inv[p].pc = "compress"
    /\ \/ /\ fsFile.exists
          /\ inv' = [inv EXCEPT ![p].pc = "stat", ![p].archive = Compress(fsFile.data),
                                ![p].source = fsFile.data,
                                ![p].calls = @ \cup {"compress"}]
       \/ Raise(p, ProcessError("tar -cf"), {"compress"})
    /\ UNCHANGED <<svVars, dlVars, ulVars, rsVars, caVariant, fsFile, fsInit, arVars, mnVars>>

\* fsPromises.stat(archivePath)
SaveStat(p) ==
    /\ inv[p].pc = "stat"
    /\ inv' = [inv EXCEPT ![p].pc = "reserve", ![p].size = Len(inv[p].archive)]
    /\ UNCHANGED <<svVars, dlVars, ulVars, rsVars, caVariant, fsFile, fsInit, arVars, mnVars>>

\* the remote grants a reservation for a pair that has no entry, reserved or
\* committed.
\* AdmitsUnlessCommitted is a remote that refuses committed entries only.
AdmitsUnlessCommitted(entry) == entry # "committed"
Admits(entry) == entry = "absent"

\* where saveCache goes when the reservation was refused: it removes the
\* scratch directory and returns false.
\* RetryAfterRefusal is a save that asks again.
RetryAfterRefusal == "reserve"
AfterRefusal == "cleanup"

\* saveCache: `await reserveCache(key, version, archiveStat.size)` or
\* `await createCacheEntry(key, version)`, and the branch on its result
SaveReserve(p) ==
    /\ inv[p].pc = "reserve"
    /\ \E res \in ReserveResponses(caVariant, Admits(svEntry)) \cup ServiceFaults :
         LET out == Reserve(caVariant, res)
             handled == res \notin ServiceFaults
             told == IF ~handled THEN "none"
                     ELSE IF Admits(svEntry) THEN "granted" ELSE "conflict"
         IN /\ svEntry' = IF handled /\ Admits(svEntry) THEN "reserved" ELSE svEntry
            /\ IF out.threw
               THEN inv' = [inv EXCEPT ![p].pc = "done",
                                       ![p].result = Propagate(out.error).result,
                                       ![p].error = Propagate(out.error).error,
                                       ![p].reserve = told,
                                       ![p].reserves = @ + 1,
                                       ![p].calls = @ \cup {"reserve"}]
               ELSE IF ReserveRefused(caVariant, out.value)
               THEN inv' = [inv EXCEPT ![p].pc = AfterRefusal, ![p].ret = "false",
                                       ![p].reserve = told,
                                       ![p].reserves = @ + 1,
                                       ![p].calls = @ \cup {"reserve"}]
               ELSE inv' = [inv EXCEPT ![p].pc = "upload", ![p].ret = OkOf(out.value),
                                       ![p].reserve = told,
                                       ![p].reserves = @ + 1,
                                       ![p].calls = @ \cup {"reserve"}]
    /\ UNCHANGED <<svData, svCommittedBy, dlVars, ulVars, rsVars, caVariant, fsFile, fsInit,
                   arVars, mnVars>>

\* saveCache: uploadCache(cacheId, archivePath, archiveStat.size) is called
SaveUpload(p) ==
    /\ inv[p].pc = "upload" /\ caVariant = "reserve-commit"
    /\ ulPc \in {"idle", "resolved", "rejected"}
    /\ inv' = [inv EXCEPT ![p].pc = "uploading", ![p].calls = @ \cup {"upload"}]
    /\ ulFile' = inv[p].archive
    /\ ulFileSize' = inv[p].size
    /\ ulChunkSize' = MaxChunk
    /\ ulPc' = "called"
    /\ ulRanges' = << >> /\ ulChunk' = << >> /\ ulRequests' = << >>
    /\ ulCache' = << >>
    /\ ulError' = NoError /\ ulFailed' = << >>
    /\ UNCHANGED <<svVars, dlVars, rsVars, caVariant, fsFile, fsInit, arVars, mnVars>>

\* `await uploadCache(...)`: saveCache goes on when the call has settled.
\* UploadNotAwaited is the call without the await.
UploadNotAwaited(pc) == TRUE
UploadAwaited(pc) == pc \in {"resolved", "rejected"}

\* uploadCache settles
SaveUploaded(p) ==
    /\ inv[p].pc = "uploading"
    /\ UploadAwaited(ulPc)
    /\ IF ulPc = "rejected" THEN Raise(p, ulError, {})
       ELSE inv' = [inv EXCEPT ![p].pc = "finalize"]
    /\ UNCHANGED <<svVars, dlVars, ulVars, rsVars, caVariant, fsFile, fsInit, arVars, mnVars>>

\* saveCache: azureStorageCopy(archivePath, res.signed_upload_url)
SaveCopy(p) ==
    /\ inv[p].pc = "upload" /\ caVariant = "signed-url"
    /\ \/ /\ inv' = [inv EXCEPT ![p].pc = "finalize", ![p].calls = @ \cup {"upload"}]
          /\ svData' = inv[p].archive
       \/ /\ Raise(p, ProcessError("azcopy copy"), {"upload"})
          /\ UNCHANGED svData
    /\ UNCHANGED <<svEntry, svCommittedBy, dlVars, ulVars, rsVars, caVariant, fsFile, fsInit,
                   arVars, mnVars>>

\* saveCache: `await commitCache(cacheId, archiveStat.size)` or
\* `const { ok } = await finalizeCacheEntryUpload(...); res.ok = ok`
SaveFinalize(p) ==
    /\ inv[p].pc = "finalize"
    /\ \E done \in BOOLEAN :
       \E res \in {FinalizeResponse(caVariant, done)} \cup ServiceFaults :
         LET out == Finalize(caVariant, res)
             commits == done /\ res \notin ServiceFaults /\ svEntry = "reserved"
             reported == IF caVariant = "reserve-commit" THEN "true" ELSE OkOf(out.value)
         IN /\ (caVariant = "reserve-commit" /\ res \notin ServiceFaults) => done
            /\ svEntry' = IF commits THEN "committed" ELSE svEntry
            /\ svCommittedBy' = IF commits THEN p ELSE svCommittedBy
            /\ svData' = IF commits /\ caVariant = "reserve-commit" THEN ulCache ELSE svData
            /\ IF out.threw THEN Raise(p, out.error, {"finalize"})
               ELSE inv' = [inv EXCEPT ![p].pc = "cleanup",
                                       ![p].finalize = reported,
                                       ![p].ret = SaveResult(caVariant, inv[p].ret, reported),
                                       ![p].calls = @ \cup {"finalize"}]
    /\ UNCHANGED <<dlVars, ulVars, rsVars, caVariant, fsFile, fsInit, arVars, mnVars>>

\* fsPromises.rm(tempDir, { recursive: true }): the directory and the archive
\* in it are gone. RemoveNothing is a return without the rm.
RemoveNothing(temp) == temp
RemoveRecursive(temp) == "removed"

\* fsPromises.rm(tempDir, { recursive: true }), then the return
Cleanup(p) ==
    /\ inv[p].pc = "cleanup"
    /\ inv' = [inv EXCEPT ![p].pc = "done", ![p].temp = RemoveRecursive(@),
                          ![p].result = inv[p].ret]
    /\ UNCHANGED <<svVars, dlVars, ulVars, rsVars, caVariant, fsFile, fsInit, arVars, mnVars>>

CacheNext ==
    \/ \E p \in Procs : RestoreLookup(p)
    \/ \E p \in Procs : SaveStart(p)
    \/ \E p \in Procs : Mkdtemp(p)
    \/ \E p \in Procs : RestoreDownload(p)
    \/ \E p \in Procs : RestoreDownloaded(p)
    \/ \E p \in Procs : RestoreCopy(p)
    \/ \E p \in Procs : RestoreExtract(p)
    \/ \E p \in Procs : SaveCompress(p)
    \/ \E p \in Procs : SaveStat(p)
    \/ \E p \in Procs : SaveReserve(p)
    \/ \E p \in Procs : SaveUpload(p)
    \/ \E p \in Procs : SaveUploaded(p)
    \/ \E p \in Procs : SaveCopy(p)
    \/ \E p \in Procs : SaveFinalize(p)
    \/ \E p \in Procs : Cleanup(p)
    \/ DownloadNext
    \/ UploadNext

(***************************************************************************)
(* Specifications.                                                         *)
(***************************************************************************)
vars == <<svVars, dlVars, ulVars, rsVars, caVars, arVars, mnVars>>

\* one call of downloadFile on a committed blob; nothing else runs
DownloadInit ==
    /\ svEntry = "committed" /\ svData \in Files /\ svCommittedBy = 0
    /\ dlChunkSize \in ChunkSizes
    /\ dlPc = "opening"
    /\ dlOpen = "pending"
    /\ dlProbe = "pending"
    /\ dlFileSize = 0
    /\ dlDest \in {NoFile, StaleFile}
    /\ dlRanges = << >> /\ dlChunk = << >> /\ dlBuffer = << >>
    /\ dlError = NoError /\ dlFailed = << >> /\ dlType = << >>
    /\ ulFile = << >> /\ ulFileSize = 0 /\ ulChunkSize = 1 /\ ulPc = "idle"
    /\ ulRanges = << >> /\ ulChunk = << >> /\ ulRequests = << >>
    /\ ulCache = << >> /\ ulError = NoError /\ ulFailed = << >>
    /\ rsCall = "none" /\ rsRes = [statusCode |-> 0] /\ rsDone = FALSE
    /\ rsOut = Return(JsNull)
    /\ arFs = << >> /\ arSaved = << >> /\ arPaths = {} /\ arArchive = << >>
    /\ arPc = "idle"
    /\ prOp = "none" /\ prProc = << >> /\ prWait = << >> /\ prAll = [state |-> "none", error |-> NoError]
    /\ mnPc = "idle" /\ mnOutput = "unset" /\ mnState = "unset"
    /\ poPc = "idle" /\ poEnv = ""
    /\ caVariant = "none" /\ fsFile = NoFile /\ fsInit = NoFile
    /\ inv = << >>

SpecDownload == DownloadInit /\ [][DownloadNext]_vars

\* one call of requestUploadCache; fileSize is the stat size of the file
UploadInit ==
    /\ svEntry = "reserved" /\ svData = << >> /\ svCommittedBy = 0
    /\ ulFile \in Files
    /\ ulFileSize = Len(ulFile)
    /\ ulChunkSize \in ChunkSizes
    /\ ulPc = "called"
    /\ ulRanges = << >> /\ ulChunk = << >> /\ ulRequests = << >>
    /\ ulCache = << >>
    /\ ulError = NoError /\ ulFailed = << >>
    /\ dlChunkSize = 1 /\ dlPc = "idle" /\ dlOpen = "none" /\ dlProbe = "none"
    /\ dlFileSize = 0 /\ dlDest = NoFile /\ dlRanges = << >>
    /\ dlChunk = << >> /\ dlBuffer = << >> /\ dlError = NoError /\ dlFailed = << >> /\ dlType = << >>
    /\ rsCall = "none" /\ rsRes = [statusCode |-> 0] /\ rsDone = FALSE
    /\ rsOut = Return(JsNull)
    /\ arFs = << >> /\ arSaved = << >> /\ arPaths = {} /\ arArchive = << >>
    /\ arPc = "idle"
    /\ prOp = "none" /\ prProc = << >> /\ prWait = << >> /\ prAll = [state |-> "none", error |-> NoError]
    /\ mnPc = "idle" /\ mnOutput = "unset" /\ mnState = "unset"
    /\ poPc = "idle" /\ poEnv = ""
    /\ caVariant = "none" /\ fsFile = NoFile /\ fsInit = NoFile
    /\ inv = << >>

SpecUpload == UploadInit /\ [][UploadNext]_vars

\* one call of a control-plane client, or of readErrorIncomingMessage, on
\* one response
ResponseInit ==
    /\ rsCall \in Calls
    /\ rsRes \in Responses
    /\ rsDone = FALSE
    /\ rsOut = Return(JsNull)
    /\ arFs = << >> /\ arSaved = << >> /\ arPaths = {} /\ arArchive = << >>
    /\ arPc = "idle"
    /\ prOp = "none" /\ prProc = << >> /\ prWait = << >> /\ prAll = [state |-> "none", error |-> NoError]
    /\ mnPc = "idle" /\ mnOutput = "unset" /\ mnState = "unset"
    /\ poPc = "idle" /\ poEnv = ""
    /\ svEntry = "absent" /\ svData = << >> /\ svCommittedBy = 0
    /\ dlChunkSize = 1 /\ dlPc = "idle" /\ dlOpen = "none" /\ dlProbe = "none"
    /\ dlFileSize = 0 /\ dlDest = NoFile /\ dlRanges = << >>
    /\ dlChunk = << >> /\ dlBuffer = << >> /\ dlError = NoError /\ dlFailed = << >> /\ dlType = << >>
    /\ ulFile = << >> /\ ulFileSize = 0 /\ ulChunkSize = 1 /\ ulPc = "idle"
    /\ ulRanges = << >> /\ ulChunk = << >> /\ ulRequests = << >>
    /\ ulCache = << >> /\ ulError = NoError /\ ulFailed = << >>
    /\ caVariant = "none" /\ fsFile = NoFile /\ fsInit = NoFile
    /\ inv = << >>

SpecResponse == ResponseInit /\ [][ResponseNext]_vars

\* two invocations of the action on one (key, version), at most one of
\* them a restore, against a remote with no entry or a committed one
CacheInit ==
    /\ caVariant \in Variants
    /\ fsInit \in {NoFile, LocalFile}
    /\ fsFile = fsInit
    /\ inv \in {f \in [Procs -> {NewInvocation("save"), NewInvocation("restore")}] :
                  \E p \in Procs : f[p].op = "save"}
    /\ \/ svEntry = "absent" /\ svData = << >>
       \/ svEntry = "committed" /\ svData = Compress(LocalData)
    /\ svCommittedBy = 0
    /\ dlChunkSize = 1 /\ dlPc = "idle" /\ dlOpen = "none" /\ dlProbe = "none"
    /\ dlFileSize = 0 /\ dlDest = NoFile /\ dlRanges = << >>
    /\ dlChunk = << >> /\ dlBuffer = << >> /\ dlError = NoError /\ dlFailed = << >> /\ dlType = << >>
    /\ ulFile = << >> /\ ulFileSize = 0 /\ ulChunkSize = 1 /\ ulPc = "idle"
    /\ ulRanges = << >> /\ ulChunk = << >> /\ ulRequests = << >>
    /\ ulCache = << >> /\ ulError = NoError /\ ulFailed = << >>
    /\ rsCall = "none" /\ rsRes = [statusCode |-> 0] /\ rsDone = FALSE
    /\ rsOut = Return(JsNull)
    /\ arFs = << >> /\ arSaved = << >> /\ arPaths = {} /\ arArchive = << >>
    /\ arPc = "idle"
    /\ prOp = "none" /\ prProc = << >> /\ prWait = << >> /\ prAll = [state |-> "none", error |-> NoError]
    /\ mnPc = "idle" /\ mnOutput = "unset" /\ mnState = "unset"
    /\ poPc = "idle" /\ poEnv = ""

SpecCache == CacheInit /\ [][CacheNext]_vars

(***************************************************************************)
(* Properties of the transfer plan and of the transfers.                   *)
(***************************************************************************)
\* the byte offsets a range names: start..end, both included, as the range
\* header `bytes=<start>-<end>` and fs.createReadStream read them
RangeBytes(range) == range.start..range.end

\* the ranges are pairwise disjoint and cover 0..totalSize-1 and nothing else
PartitionsFile(ranges, totalSize) ==
    /\ UNION {RangeBytes(ranges[i]) : i \in DOMAIN ranges} = 0..(totalSize - 1)
    /\ \A i, j \in DOMAIN ranges :
         i # j => RangeBytes(ranges[i]) \cap RangeBytes(ranges[j]) = {}

\* C1: for any totalSize > 0 and chunkSize > 0 the union of the ranges a
\* transfer is split into is exactly [0, totalSize), without gaps or overlaps.
RangeCoverage ==
    (dlPc \in {"transferring", "closing", "resolved"} /\ dlFileSize > 0)
        => PartitionsFile(dlRanges, dlFileSize)

\* C2: a download that completes without error leaves the destination file
\* byte-identical to the remote content.
DownloadReassembles ==
    dlPc = "resolved" => (dlDest.exists /\ dlDest.data = svData)


\* C3: an upload that completes without error has delivered chunks which,
\* each stored at the start offset of its Content-Range header, reproduce the
\* source file.
UploadReassembles ==
    ulPc = "resolved" => ulCache = ulFile

\* an upload of several chunks, the last one shorter than the others, is done
UploadReassemblesWitness ==
    /\ ulPc = "resolved"
    /\ Len(ulRanges) >= 2
    /\ ulFileSize % ulChunkSize # 0
    /\ ulCache = ulFile

(***************************************************************************)
(* Properties of the control-plane clients.                                *)
(***************************************************************************)
\* message is `${text} (${statusCode})` for some text
EndsWith(s, suffix) ==
    Len(s) >= Len(suffix) /\ SubSeq(s, Len(s) - Len(suffix) + 1, Len(s)) = suffix
HasErrorForm(error, statusCode) ==
    error.name = "Error" /\ EndsWith(error.message, FormatError("", statusCode))

\* C8: when the remote answers a reserve request with 409, reserve returns
\* its null / not-ok signal and does not raise.
ReserveConflictIsSignal ==
    (rsDone /\ rsCall \in ReserveCalls /\ rsRes.statusCode = 409) =>
        /\ ~rsOut.threw
        /\ rsCall = "requestReserveCache" => rsOut.value = JsNull
        /\ rsCall = "createCacheEntry" => rsOut.value.fields["ok"] = FALSE

\* requestReserveCache has settled on a 409 whose body is a JSON error
ReserveConflictWitness ==
    /\ rsDone
    /\ rsCall = "requestReserveCache"
    /\ rsRes.statusCode = 409
    /\ rsRes.body = "{\"message\":\"an error\"}"
    /\ rsOut = Return(JsNull)

\* C9: lookup, reserve and finalize raise, for every non-success status but
\* the conflict of reserve (the not-found of lookup, 204, is a success
\* status), the error decoded from the response, "<message> (<status>)".
NonSuccessRaisesDecodedError ==
    (/\ rsDone
     /\ rsCall \in LookupCalls \cup ReserveCalls \cup FinalizeCalls
     /\ ~ResponseOk(rsRes)
     /\ ~(rsCall \in ReserveCalls /\ rsRes.statusCode = 409)) =>
        (rsOut.threw /\ HasErrorForm(rsOut.error, rsRes.statusCode))

\* C10: for every error response, whatever its content type and body,
\* readErrorIncomingMessage returns an error "<text> (<statusCode>)".
ReadErrorHasForm ==
    (rsDone /\ rsCall = "readErrorIncomingMessage") =>
        (~rsOut.threw /\ HasErrorForm(rsOut.error, rsRes.statusCode))

(***************************************************************************)
(* Properties of restoreCache and saveCache.                               *)
(***************************************************************************)
Saves == {p \in DOMAIN inv : inv[p].op = "save"}
Restores == {p \in DOMAIN inv : inv[p].op = "restore"}

\* C4: a save whose reserve the remote answered with a conflict returns
\* false, and it invokes neither upload nor finalize.
SaveConflictSkipsUpload ==
    \A p \in Saves :
        inv[p].reserve = "conflict" =>
            /\ inv[p].result \in {"pending", "false"}
            /\ inv[p].pc = "done" => inv[p].result = "false"
            /\ inv[p].calls \cap {"upload", "finalize"} = {}

\* a save has returned false after the remote refused its reservation
SaveConflictWitness ==
    \E p \in Saves :
        /\ inv[p].reserve = "conflict"
        /\ inv[p].pc = "done"
        /\ inv[p].result = "false"

\* C5: a restore whose lookup found no entry on the remote returns false,
\* and the local filesystem is as it was: no scratch directory was made,
\* nothing was downloaded and nothing was extracted.
RestoreMissLeavesFilesystem ==
    \A p \in Restores :
        inv[p].lookup = "absent" =>
            /\ inv[p].result = "false"
            /\ inv[p].temp = "none"
            /\ inv[p].calls \cap {"mkdtemp", "download", "extract"} = {}
            /\ fsFile = fsInit

\* a restore has returned after the remote reported no entry, while a save
\* of the same key has already made its scratch directory
RestoreMissWitness ==
    \E p \in Restores :
        /\ inv[p].lookup = "absent"
        /\ inv[p].pc = "done"
        /\ \E q \in Saves : inv[q].temp = "exists"

\* C6: when reserve grants the reservation and neither upload nor finalize
\* raises, the boolean save returns is the outcome finalize reported.
SaveReturnsFinalizeOutcome ==
    \A p \in Saves :
        (inv[p].reserve = "granted" /\ inv[p].result \in {"true", "false", "undefined"}) =>
            /\ inv[p].finalize # "none"
            /\ inv[p].result = inv[p].finalize

\* a save with signed URLs has returned false because finalize reported
\* ok = false after a granted reservation and a finished upload
SaveFinalizeOutcomeWitness ==
    \E p \in Saves :
        /\ inv[p].reserve = "granted"
        /\ "upload" \in inv[p].calls
        /\ inv[p].finalize = "false"
        /\ inv[p].result = "false"

IsJsonResponse(res) ==
    "content-type" \in DOMAIN res.headers
        /\ Includes(res.headers["content-type"], "application/json")
IsXmlResponse(res) ==
    "content-type" \in DOMAIN res.headers
        /\ ~Includes(res.headers["content-type"], "application/json")
        /\ Includes(res.headers["content-type"], "application/xml")

\* C11: an error response with no recognized content type and an empty body
\* decodes to the error "unknown error (<status>)".
EmptyErrorIsUnknown ==
    (/\ rsDone
     /\ rsCall = "readErrorIncomingMessage"
     /\ ~IsJsonResponse(rsRes) /\ ~IsXmlResponse(rsRes)
     /\ rsRes.body = "") =>
        /\ ~rsOut.threw
        /\ rsOut.error = MkError("unknown error (" \o ToString(rsRes.statusCode) \o ")")

\* readErrorIncomingMessage has decoded a 500 without headers or body
EmptyErrorWitness ==
    /\ rsDone
    /\ rsCall = "readErrorIncomingMessage"
    /\ rsRes.statusCode = 500
    /\ rsRes.headers = NoHeaders
    /\ rsRes.body = ""
    /\ rsOut.error = MkError("unknown error (500)")

\* the message of a JSON or XML error body cannot be extracted
ExtractionFails(res) ==
    \/ /\ IsJsonResponse(res)
       /\ LET data == JsonParse(res.body)
          IN ~(data.ok /\ data.value.type = "object"
                       /\ "message" \in DOMAIN data.value.fields)
    \/ /\ IsXmlResponse(res)
       /\ ~MatchMessage(res.body).matched

\* C12: when an error response is JSON or XML and its message cannot be
\* extracted (no `message` field, no <Message> element, a body that does
\* not parse), readErrorIncomingMessage resolves to the error of the raw
\* body text.
ExtractionFailureFallsBack ==
    (/\ rsDone
     /\ rsCall = "readErrorIncomingMessage"
     /\ ExtractionFails(rsRes)) =>
        /\ ~rsOut.threw
        /\ rsOut.error = RawBodyError(rsRes)

\* one call of downloadFile, or one call of requestUploadCache
TransferInit ==
    /\ svCommittedBy = 0
    /\ \/ /\ svEntry = "committed" /\ svData \in Files
          /\ dlChunkSize \in ChunkSizes
          /\ dlPc = "opening" /\ dlOpen = "pending" /\ dlProbe = "pending"
          /\ dlDest \in {NoFile, StaleFile}
          /\ ulFile = << >> /\ ulFileSize = 0 /\ ulChunkSize = 1 /\ ulPc = "idle"
       \/ /\ svEntry = "reserved" /\ svData = << >>
          /\ ulFile \in Files
          /\ ulFileSize = Len(ulFile)
          /\ ulChunkSize \in ChunkSizes
          /\ ulPc = "called"
          /\ dlChunkSize = 1 /\ dlPc = "idle" /\ dlOpen = "none" /\ dlProbe = "none"
          /\ dlDest = NoFile
    /\ dlFileSize = 0
    /\ dlRanges = << >> /\ dlChunk = << >> /\ dlBuffer = << >>
    /\ dlError = NoError /\ dlFailed = << >> /\ dlType = << >>
    /\ ulRanges = << >> /\ ulChunk = << >> /\ ulRequests = << >>
    /\ ulCache = << >>
    /\ ulError = NoError /\ ulFailed = << >>
    /\ rsCall = "none" /\ rsRes = [statusCode |-> 0] /\ rsDone = FALSE
    /\ rsOut = Return(JsNull)
    /\ arFs = << >> /\ arSaved = << >> /\ arPaths = {} /\ arArchive = << >>
    /\ arPc = "idle"
    /\ prOp = "none" /\ prProc = << >> /\ prWait = << >> /\ prAll = [state |-> "none", error |-> NoError]
    /\ mnPc = "idle" /\ mnOutput = "unset" /\ mnState = "unset"
    /\ poPc = "idle" /\ poEnv = ""
    /\ caVariant = "none" /\ fsFile = NoFile /\ fsInit = NoFile
    /\ inv = << >>

TransferNext == DownloadNext \/ UploadNext

SpecTransfer == TransferInit /\ [][TransferNext]_vars

(***************************************************************************)
(* Properties of the transfers of one call.                                *)
(***************************************************************************)
\* C14: when the probed size of a download or the fileSize of an upload is
\* 0, the plan has no range, no chunk request is sent, and the call does not
\* fail.
EmptyTransferSendsNothing ==
    /\ (dlProbe = "ok" /\ dlFileSize = 0) =>
          /\ dlRanges = << >> /\ dlChunk = << >>
          /\ dlPc # "rejected"
          /\ dlPc = "resolved" => dlDest = [exists |-> TRUE, data |-> << >>]
    /\ (ulPc # "idle" /\ ulFileSize = 0) =>
          /\ ulRanges = << >> /\ ulRequests = << >>
          /\ ulPc # "rejected"
          /\ ulCache = << >>

\* a download of an empty remote file over a stale destination has resolved
\* without a range
EmptyTransferWitness ==
    /\ dlPc = "resolved"
    /\ dlProbe = "ok"
    /\ dlFileSize = 0
    /\ svData = << >>
    /\ dlRanges = << >>
    /\ dlDest = [exists |-> TRUE, data |-> << >>]

\* the end offset of a Content-Range header `bytes <start>-<end>/*`
ContentRangeEnd(header) ==
    CHOOSE end \in 0..(MaxFileLen + MaxChunk + 1) :
        \E start \in 0..(MaxFileLen + 1) : header = ContentRange(start, end)

\* the bytes of file at the offsets first..last, each of which must exist
ExactSlice(file, first, last, body) ==
    /\ Len(body) = last - first + 1
    /\ \A k \in 1..Len(body) :
          /\ first + k \in DOMAIN file
          /\ body[k] = file[first + k]

\* C15: the body of every request of an upload is exactly the byte slice
\* [start, end] of the source file that its Content-Range header
\* `bytes <start>-<end>/*` advertises.
UploadBodyMatchesContentRange ==
    \A i \in DOMAIN ulRequests :
        LET header == ulRequests[i].headers["content-range"]
        IN ExactSlice(ulFile, ContentRangeStart(header), ContentRangeEnd(header),
                      ulRequests[i].body)

(***************************************************************************)
(* createArchive(archivePath, filePaths) and extractArchive(archivePath):  *)
(* `tar -cf - -P ...filePaths | zstd -T0 -o archivePath` and               *)
(* `zstd -d -T0 -c archivePath | tar -xf - -P`.                            *)
(***************************************************************************)
\* the files of the sample tree, one of them in the working directory, and
\* the directories above them
TreeFiles == {"/t/foo", "/t/baz/bar", "/t/baz/qux/baz", "rel"}
TreeDirs == {"/t/baz", "/t/baz/qux"}

\* tar without -P removes the leading "/" of a member name
StripLeadingSlash(path) ==
    IF Len(path) > 0 /\ SubSeq(path, 1, 1) = "/" THEN SubSeq(path, 2, Len(path))
    ELSE path
DiskPaths == TreeFiles \cup {StripLeadingSlash(f) : f \in TreeFiles}

\* path is dir, or a path below dir
IsUnder(path, dir) ==
    \/ path = dir
    \/ Len(path) > Len(dir) /\ SubSeq(path, 1, Len(dir) + 1) = dir \o "/"

\* the files on disk that the argument `path` of tar names: the file itself,
\* or every file below the directory
FilesAt(fs, path) == {f \in DOMAIN fs : fs[f] # "absent" /\ IsUnder(f, path)}

\* `tar -c [-P] paths`: exit code and the members written to stdout
TarCreate(fs, paths, absoluteNames) ==
    [code |-> IF \E path \in paths : FilesAt(fs, path) = {} THEN 2 ELSE 0,
     stdout |-> {[name |-> IF absoluteNames THEN f ELSE StripLeadingSlash(f),
                  data |-> fs[f]] : f \in UNION {FilesAt(fs, path) : path \in paths}}]

\* `tar -x [-P]` of the members on stdin: every member is written at its name
TarExtract(fs, members, absoluteNames) ==
    [f \in DOMAIN fs |->
        IF \E m \in members :
              (IF absoluteNames THEN m.name ELSE StripLeadingSlash(m.name)) = f
        THEN (CHOOSE m \in members :
                 (IF absoluteNames THEN m.name ELSE StripLeadingSlash(m.name)) = f).data
        ELSE fs[f]]

\* `zstd -o file` of stdin, and `zstd -d -c file`: a frame around the input;
\* a file that is not a frame makes zstd -d exit with 1
NoArchive == [written |-> FALSE, format |-> "none", payload |-> {}]
ZstdCompress(stdin) == [written |-> TRUE, format |-> "zstd", payload |-> stdin]
ZstdDecompress(file) ==
    IF file.written /\ file.format = "zstd"
    THEN [code |-> 0, stdout |-> file.payload]
    ELSE [code |-> 1, stdout |-> {}]

\* createArchive: tar's stdout is piped into zstd, and both are awaited
CreateArchive(fs, filePaths) ==
    LET tar == TarCreate(fs, filePaths, TRUE)
    IN [ok |-> tar.code = 0, archive |-> ZstdCompress(tar.stdout)]

\* extractArchive: zstd's stdout is piped into tar, and both are awaited.
\* ExtractArchiveRelative is the call without tar's -P.
ExtractArchiveRelative(fs, archive) ==
    LET zstd == ZstdDecompress(archive)
    IN [ok |-> zstd.code = 0, fs |-> TarExtract(fs, zstd.stdout, FALSE)]
ExtractArchive(fs, archive) ==
    LET zstd == ZstdDecompress(archive)
    IN [ok |-> zstd.code = 0, fs |-> TarExtract(fs, zstd.stdout, TRUE)]

\* createArchive settles
ArchiveCreate ==
    /\ arPc = "create"
    /\ LET made == CreateArchive(arFs, arPaths)
       IN \/ /\ made.ok
             /\ arArchive' = made.archive
             /\ arSaved' = arFs
             /\ arPc' = "created"
          \/ /\ arPc' = "failed"
             /\ arArchive' = IF made.ok THEN arArchive ELSE made.archive
             /\ UNCHANGED arSaved
    /\ UNCHANGED <<arFs, arPaths>>
    /\ UNCHANGED <<svVars, dlVars, ulVars, rsVars, caVars, mnVars, prVars>>

\* between the two calls a file of the tree is removed or rewritten
ArchiveTreeChanges ==
    /\ arPc = "created"
    /\ \E f \in TreeFiles : \E c \in {"absent", "changed"} :
         /\ arFs[f] # c
         /\ arFs' = [arFs EXCEPT ![f] = c]
    /\ UNCHANGED <<arSaved, arPaths, arArchive, arPc>>
    /\ UNCHANGED <<svVars, dlVars, ulVars, rsVars, caVars, mnVars, prVars>>

\* extractArchive settles
ArchiveExtract ==
    /\ arPc = "created"
    /\ LET out == ExtractArchive(arFs, arArchive)
       IN \/ /\ out.ok
             /\ arFs' = out.fs
             /\ arPc' = "extracted"
          \/ /\ arPc' = "failed"
             /\ UNCHANGED arFs
    /\ UNCHANGED <<arSaved, arPaths, arArchive>>
    /\ UNCHANGED <<svVars, dlVars, ulVars, rsVars, caVars, mnVars, prVars>>

ArchiveNext == ArchiveCreate \/ ArchiveTreeChanges \/ ArchiveExtract

\* createArchive of some files and directories of a tree, then extractArchive
ArchiveInit ==
    /\ arFs \in {fs \in [DiskPaths -> {"absent", "foofoo"}] :
                   \A f \in DiskPaths \ TreeFiles : fs[f] = "absent"}
    /\ arSaved = << >>
    /\ arPaths \in (SUBSET (TreeFiles \cup TreeDirs)) \ {{}}
    /\ arArchive = NoArchive
    /\ arPc = "create"
    /\ prOp = "none" /\ prProc = << >> /\ prWait = << >> /\ prAll = [state |-> "none", error |-> NoError]
    /\ mnPc = "idle" /\ mnOutput = "unset" /\ mnState = "unset"
    /\ poPc = "idle" /\ poEnv = ""
    /\ svEntry = "absent" /\ svData = << >> /\ svCommittedBy = 0
    /\ dlChunkSize = 1 /\ dlPc = "idle" /\ dlOpen = "none" /\ dlProbe = "none"
    /\ dlFileSize = 0 /\ dlDest = NoFile /\ dlRanges = << >>
    /\ dlChunk = << >> /\ dlBuffer = << >> /\ dlError = NoError /\ dlFailed = << >> /\ dlType = << >>
    /\ ulFile = << >> /\ ulFileSize = 0 /\ ulChunkSize = 1 /\ ulPc = "idle"
    /\ ulRanges = << >> /\ ulChunk = << >> /\ ulRequests = << >>
    /\ ulCache = << >> /\ ulError = NoError /\ ulFailed = << >>
    /\ rsCall = "none" /\ rsRes = [statusCode |-> 0] /\ rsDone = FALSE
    /\ rsOut = Return(JsNull)
    /\ caVariant = "none" /\ fsFile = NoFile /\ fsInit = NoFile
    /\ inv = << >>

SpecArchive == ArchiveInit /\ [][ArchiveNext]_vars

\* C16: extractArchive after createArchive(archive, paths) leaves, at every
\* file that was at or below one of the paths, the bytes the file had when
\* the archive was created: plain files, nested directories and mixed sets.
ExtractReproducesFiles ==
    arPc = "extracted" =>
        \A path \in arPaths : \A f \in FilesAt(arSaved, path) : arFs[f] = arSaved[f]

\* a file and a nested directory were archived and, after a file outside
\* the archived paths was rewritten, extractArchive has put every archived
\* file in place
ExtractReproducesWitness ==
    /\ arPc = "extracted"
    /\ arPaths = {"/t/foo", "/t/baz"}
    /\ \A f \in {"/t/foo", "/t/baz/bar", "/t/baz/qux/baz"} :
          arSaved[f] = "foofoo" /\ arFs[f] = "foofoo"
    /\ arSaved["rel"] = "foofoo"
    /\ arFs["rel"] = "changed"


(***************************************************************************)
(* Save followed by restore.  Between the invocations the workflow's other *)
(* steps remove or rewrite the cached path.                                *)
(***************************************************************************)
EditedData == <<2, 2>>

\* a step of the workflow other than the cache removes or rewrites the path
LocalEdit ==
    /\ fsFile' \in {NoFile, LocalFile, [exists |-> TRUE, data |-> EditedData]}
    /\ fsFile' # fsFile
    /\ UNCHANGED <<svVars, dlVars, ulVars, rsVars, caVariant, fsInit, inv, arVars, mnVars>>

RoundTripNext == CacheNext \/ LocalEdit

SpecRoundTrip == CacheInit /\ [][RoundTripNext]_vars

\* C17: a restore under the same key and version that starts after a save
\* returned true never reports a miss, and when it returns true the cached
\* path holds the content the save read.
RestoreAfterSaveHits ==
    \A p \in Restores : \A q \in inv[p].after :
        /\ inv[p].result # "false"
        /\ inv[p].ret = "true" => inv[p].restored = inv[q].source
        /\ inv[p].result = "true" => inv[p].ret = "true"

\* a restore that started after a save returned true has returned true, and
\* its extract rewrote a path that had been edited since the save
RestoreAfterSaveWitness ==
    \E p \in Restores : \E q \in inv[p].after :
        /\ inv[p].result = "true"
        /\ inv[p].before # [exists |-> TRUE, data |-> inv[q].source]
        /\ inv[p].restored = inv[q].source


\* a save that started when the entry was committed: it has not returned
\* true, and once the remote refused its reservation it returns false
LaterSaveReturnsFalse ==
    \A q \in Saves :
        inv[q].started = "committed" =>
            /\ inv[q].result \in {"pending", "false", "raised"}
            /\ inv[q].reserve \in {"none", "conflict"}
            /\ inv[q].reserve = "conflict" =>
                   /\ inv[q].result \in {"pending", "false"}
                   /\ inv[q].pc = "done" => inv[q].result = "false"

\* no step changes a committed entry
CommittedEntryKept ==
    svEntry = "committed" => UNCHANGED <<svEntry, svData, svCommittedBy>>

\* C18: once an entry is committed under (key, version), every later save
\* for the pair returns false, and the stored entry stays as it is.
SavedEntryIsFinal == [] LaterSaveReturnsFalse /\ [][CommittedEntryKept]_vars

\* a save that started after the entry was committed has returned false, and
\* the entry holds the bytes the first save (or the seed) stored
LaterSaveWitness ==
    \E q \in Saves :
        /\ inv[q].started = "committed"
        /\ inv[q].reserve = "conflict"
        /\ inv[q].result = "false"
        /\ svEntry = "committed"
        /\ \/ svCommittedBy \in Saves \ {q}
           \/ svCommittedBy = 0 /\ svData = Compress(LocalData)


\* C19: in a restore that found an entry, a failure of download or of
\* extract reaches the caller as the error the failing step raised: the
\* restore has returned neither true nor false.
RestoreFailurePropagates ==
    \A p \in Restores :
        inv[p].failed # "none" =>
            /\ inv[p].lookup = "found"
            /\ inv[p].result = "raised"
            /\ inv[p].error # NoError
            /\ inv[p].ret # "true"
            /\ inv[p].failed = "extract" => inv[p].error = ProcessError("tar -xf")
            /\ (inv[p].failed = "download" /\ caVariant = "reserve-commit")
                   => inv[p].error = dlError
            /\ (inv[p].failed = "download" /\ caVariant = "signed-url")
                   => inv[p].error = ProcessError("azcopy copy")

\* a restore found an entry, downloaded it, and its extract failed: the
\* restore has rejected with the error of the process
RestoreFailureWitness ==
    \E p \in Restores :
        /\ inv[p].lookup = "found"
        /\ inv[p].failed = "extract"
        /\ "download" \in inv[p].calls
        /\ inv[p].result = "raised"
        /\ inv[p].error = ProcessError("tar -xf")


(***************************************************************************)
(* The main step of the action: restoreCache, then the `restored` output   *)
(* and the `restored` state.                                               *)
(***************************************************************************)
\* the invocation of restoreCache the main step awaits
MainProc == 1

\* the line setOutput and setState append to the file GITHUB_OUTPUT and
\* GITHUB_STATE name: `${name}=${value}${os.EOL}`
CommandLine(name, value) == name \o "=" \o value

\* what the main step writes in the branch for `restored`.
\* MainWritesOutputOnly is the step that calls setOutput alone.
MainWritesOutputOnly(restored) ==
    [output |-> CommandLine("restored", restored), state |-> "unset"]
MainWrites(restored) ==
    [output |-> CommandLine("restored", restored),
     state |-> CommandLine("restored", restored)]

\* `if (await restoreCache(key, version))` resolves: Promise.all([...]) has
\* called setOutput and setState, neither append has completed
MainRestored ==
    /\ mnPc = "restoring"
    /\ inv[MainProc].pc = "done" /\ inv[MainProc].result \in {"true", "false"}
    /\ mnPc' = "writing"
    /\ UNCHANGED <<mnOutput, mnState, poPc, poEnv>>
    /\ UNCHANGED <<svVars, dlVars, ulVars, rsVars, caVars, arVars>>

\* the appendFile of setOutput completes
MainSetOutput ==
    /\ mnPc = "writing" /\ mnOutput = "unset"
    /\ mnOutput' = MainWrites(inv[MainProc].result).output
    /\ UNCHANGED <<mnPc, mnState, poPc, poEnv>>
    /\ UNCHANGED <<svVars, dlVars, ulVars, rsVars, caVars, arVars>>

\* the appendFile of setState completes
MainSetState ==
    /\ mnPc = "writing" /\ mnState = "unset"
    /\ mnState' = MainWrites(inv[MainProc].result).state
    /\ UNCHANGED <<mnPc, mnOutput, poPc, poEnv>>
    /\ UNCHANGED <<svVars, dlVars, ulVars, rsVars, caVars, arVars>>

\* Promise.all resolves: the step ends
MainWritten ==
    /\ mnPc = "writing"
    /\ mnOutput = MainWrites(inv[MainProc].result).output
    /\ mnState = MainWrites(inv[MainProc].result).state
    /\ mnPc' = "done"
    /\ UNCHANGED <<mnOutput, mnState, poPc, poEnv>>
    /\ UNCHANGED <<svVars, dlVars, ulVars, rsVars, caVars, arVars>>

\* restoreCache rejects: catch (err) { logError(err); process.exit(1); }
MainFailed ==
    /\ mnPc = "restoring"
    /\ inv[MainProc].pc = "done" /\ inv[MainProc].result = "raised"
    /\ mnPc' = "exited"
    /\ UNCHANGED <<mnOutput, mnState, poPc, poEnv>>
    /\ UNCHANGED <<svVars, dlVars, ulVars, rsVars, caVars, arVars>>

MainNext ==
    \/ CacheNext
    \/ MainRestored
    \/ MainSetOutput
    \/ MainSetState
    \/ MainWritten
    \/ MainFailed

\* the main step has called restoreCache; another job saves under the key
MainInit ==
    /\ caVariant \in Variants
    /\ fsInit \in {NoFile, LocalFile}
    /\ fsFile = fsInit
    /\ inv = [p \in Procs |-> IF p = MainProc THEN NewInvocation("restore")
                              ELSE NewInvocation("save")]
    /\ \/ svEntry = "absent" /\ svData = << >>
       \/ svEntry = "committed" /\ svData = Compress(LocalData)
    /\ svCommittedBy = 0
    /\ dlChunkSize = 1 /\ dlPc = "idle" /\ dlOpen = "none" /\ dlProbe = "none"
    /\ dlFileSize = 0 /\ dlDest = NoFile /\ dlRanges = << >>
    /\ dlChunk = << >> /\ dlBuffer = << >> /\ dlError = NoError /\ dlFailed = << >> /\ dlType = << >>
    /\ ulFile = << >> /\ ulFileSize = 0 /\ ulChunkSize = 1 /\ ulPc = "idle"
    /\ ulRanges = << >> /\ ulChunk = << >> /\ ulRequests = << >>
    /\ ulCache = << >> /\ ulError = NoError /\ ulFailed = << >>
    /\ rsCall = "none" /\ rsRes = [statusCode |-> 0] /\ rsDone = FALSE
    /\ rsOut = Return(JsNull)
    /\ arFs = << >> /\ arSaved = << >> /\ arPaths = {} /\ arArchive = << >>
    /\ arPc = "idle"
    /\ prOp = "none" /\ prProc = << >> /\ prWait = << >> /\ prAll = [state |-> "none", error |-> NoError]
    /\ mnPc = "restoring" /\ mnOutput = "unset" /\ mnState = "unset"
    /\ poPc = "idle" /\ poEnv = ""

SpecMain == MainInit /\ [][MainNext]_vars

\* C20: when the main step has ended, the `restored` output and the
\* `restored` state both hold "true" if restoreCache returned true and both
\* hold "false" if it returned false; neither is written before restoreCache
\* returns, nor when it rejects.
MainSetsOutputAndState ==
    /\ mnPc = "done" =>
           /\ inv[MainProc].result \in {"true", "false"}
           /\ mnOutput = "restored=" \o inv[MainProc].result
           /\ mnState = "restored=" \o inv[MainProc].result
    /\ mnPc \in {"restoring", "exited"} => (mnOutput = "unset" /\ mnState = "unset")
    /\ (mnPc = "restoring" /\ inv[MainProc].result \in {"true", "false"})
           => (ENABLED MainRestored)

\* restoreCache returned true and the step has ended with both written
MainRestoredWitness ==
    /\ mnPc = "done"
    /\ inv[MainProc].result = "true"
    /\ mnOutput = "restored=true" /\ mnState = "restored=true"


(***************************************************************************)
(* One workflow run: the main step, then the post step.  The runner reads   *)
(* GITHUB_STATE after the main step and hands each `name=value` line to    *)
(* the post step as the environment variable STATE_<name>.                 *)
(***************************************************************************)
\* the invocation of saveCache the post step awaits
PostProc == 2

\* String.prototype.trim, on the strings the run handles
\* the white space String.prototype.trim removes
WhiteSpace == {" ", "\n", "\t"}

RECURSIVE TrimStart(_)
TrimStart(str) ==
    IF Len(str) > 0 /\ SubSeq(str, 1, 1) \in WhiteSpace
    THEN TrimStart(SubSeq(str, 2, Len(str))) ELSE str

RECURSIVE TrimEnd(_)
TrimEnd(str) ==
    IF Len(str) > 0 /\ SubSeq(str, Len(str), Len(str)) \in WhiteSpace
    THEN TrimEnd(SubSeq(str, 1, Len(str) - 1)) ELSE str

Trim(str) == TrimEnd(TrimStart(str))

\* the value of a `name=value` line: what follows the first `=`
RECURSIVE ValueOfLine(_)
ValueOfLine(line) ==
    IF Len(line) = 0 THEN ""
    ELSE IF SubSeq(line, 1, 1) = "=" THEN SubSeq(line, 2, Len(line))
    ELSE ValueOfLine(SubSeq(line, 2, Len(line)))

\* STATE_restored as the runner sets it for the post step
RunnerState(stateFile) == IF stateFile = "unset" THEN "" ELSE ValueOfLine(stateFile)

\* getState(name): process.env[`STATE_${name}`] ?? "", trimmed
GetState(env) == Trim(env)

\* the post step skips the save when the state says the cache was restored.
\* PostAlwaysSaves is the post step that does not read the state.
PostAlwaysSaves(env) == FALSE
PostSkips(env) == GetState(env) = "true"

\* the runner starts the post step once the main step has ended
PostStart ==
    /\ poPc = "waiting" /\ mnPc \in {"done", "exited"}
    /\ poPc' = "start"
    /\ poEnv' = RunnerState(mnState)
    /\ UNCHANGED <<mnPc, mnOutput, mnState>>
    /\ UNCHANGED <<svVars, dlVars, ulVars, rsVars, caVars, arVars>>

\* `if (getState("restored") === "true")`: logInfo, and the step ends
PostSkip ==
    /\ poPc = "start" /\ PostSkips(poEnv)
    /\ poPc' = "skipped"
    /\ UNCHANGED <<mnPc, mnOutput, mnState, poEnv>>
    /\ UNCHANGED <<svVars, dlVars, ulVars, rsVars, caVars, arVars>>

\* the else branch: saveCache(key, version, filePaths) is called
PostSave ==
    /\ poPc = "start" /\ ~PostSkips(poEnv)
    /\ inv[PostProc].pc = "uncalled"
    /\ poPc' = "saving"
    /\ inv' = [inv EXCEPT ![PostProc].pc = "start"]
    /\ UNCHANGED <<mnPc, mnOutput, mnState, poEnv>>
    /\ UNCHANGED <<svVars, dlVars, ulVars, rsVars, caVariant, fsFile, fsInit, arVars>>

\* saveCache resolves, with true or with false: logInfo, and the step ends
PostSaved ==
    /\ poPc = "saving"
    /\ inv[PostProc].pc = "done" /\ inv[PostProc].result \in {"true", "false"}
    /\ poPc' = "done"
    /\ UNCHANGED <<mnPc, mnOutput, mnState, poEnv>>
    /\ UNCHANGED <<svVars, dlVars, ulVars, rsVars, caVars, arVars>>

\* saveCache rejects: catch (err) { logError(err); process.exit(1); }
PostFailed ==
    /\ poPc = "saving"
    /\ inv[PostProc].pc = "done" /\ inv[PostProc].result = "raised"
    /\ poPc' = "exited"
    /\ UNCHANGED <<mnPc, mnOutput, mnState, poEnv>>
    /\ UNCHANGED <<svVars, dlVars, ulVars, rsVars, caVars, arVars>>

RunNext ==
    \/ MainNext
    \/ PostStart
    \/ PostSkip
    \/ PostSave
    \/ PostSaved
    \/ PostFailed

\* the main step has called restoreCache; the post step is to come
RunInit ==
    /\ caVariant \in Variants
    /\ fsInit \in {NoFile, LocalFile}
    /\ fsFile = fsInit
    /\ inv = [p \in Procs |-> IF p = MainProc THEN NewInvocation("restore")
                              ELSE [NewInvocation("save") EXCEPT !.pc = "uncalled"]]
    /\ \/ svEntry = "absent" /\ svData = << >>
       \/ svEntry = "committed" /\ svData = Compress(LocalData)
    /\ svCommittedBy = 0
    /\ dlChunkSize = 1 /\ dlPc = "idle" /\ dlOpen = "none" /\ dlProbe = "none"
    /\ dlFileSize = 0 /\ dlDest = NoFile /\ dlRanges = << >>
    /\ dlChunk = << >> /\ dlBuffer = << >> /\ dlError = NoError /\ dlFailed = << >> /\ dlType = << >>
    /\ ulFile = << >> /\ ulFileSize = 0 /\ ulChunkSize = 1 /\ ulPc = "idle"
    /\ ulRanges = << >> /\ ulChunk = << >> /\ ulRequests = << >>
    /\ ulCache = << >> /\ ulError = NoError /\ ulFailed = << >>
    /\ rsCall = "none" /\ rsRes = [statusCode |-> 0] /\ rsDone = FALSE
    /\ rsOut = Return(JsNull)
    /\ arFs = << >> /\ arSaved = << >> /\ arPaths = {} /\ arArchive = << >>
    /\ arPc = "idle"
    /\ prOp = "none" /\ prProc = << >> /\ prWait = << >> /\ prAll = [state |-> "none", error |-> NoError]
    /\ mnPc = "restoring" /\ mnOutput = "unset" /\ mnState = "unset"
    /\ poPc = "waiting" /\ poEnv = ""

SpecRun == RunInit /\ [][RunNext]_vars

\* the main step ended with the cache restored
MainRestoredCache == mnPc = "done" /\ inv[MainProc].result = "true"

\* the post step has called saveCache
PostCalledSave == inv[PostProc].pc # "uncalled"

\* C21: within one run, the post step calls no save when the main step
\* restored the cache, and calls save when the main step did not (restore
\* returned false, or the main step failed).
PostSavesUnlessRestored ==
    /\ MainRestoredCache => (~PostCalledSave /\ poPc \in {"waiting", "start", "skipped"})
    /\ poPc = "skipped" => MainRestoredCache
    /\ PostCalledSave => (mnPc \in {"done", "exited"} /\ ~MainRestoredCache)
    /\ (poPc \in {"saving", "done", "exited"}) => PostCalledSave
    /\ (poPc = "start" /\ ~MainRestoredCache) => ENABLED PostSave
    /\ (poPc = "start" /\ MainRestoredCache) => ENABLED PostSkip

\* the main step restored the cache and the post step has ended without a
\* save
PostSkippedWitness ==
    /\ MainRestoredCache
    /\ poPc = "skipped"
    /\ poEnv = "true"
    /\ ~PostCalledSave


(***************************************************************************)
(* Properties of the join of the ranges of a transfer.                     *)
(***************************************************************************)
\* C22: when one or more ranges of a download or of an upload have failed,
\* the call has failed, and the error it reports is the error of the range
\* that failed first.
FirstFailureReported ==
    /\ Len(dlFailed) > 0 => (dlPc = "rejected" /\ dlError = dlFailed[1][2])
    /\ Len(ulFailed) > 0 => (ulPc = "rejected" /\ ulError = ulFailed[1][2])
    /\ (dlPc = "rejected" /\ Len(dlFailed) = 0) => dlProbe = "failed"
    /\ ulPc = "rejected" => Len(ulFailed) > 0

\* two ranges of a download have failed with different errors, and the call
\* reports the error of the first
FirstFailureWitness ==
    /\ Len(dlFailed) >= 2
    /\ dlFailed[1][2] # dlFailed[2][2]
    /\ dlFailed[1][1] > dlFailed[2][1]
    /\ dlPc = "rejected"
    /\ dlError = dlFailed[1][2]


\* after a transfer has failed, every range that was sent can still be
\* answered, and every buffer of a download can still be written
SiblingsStayInFlight ==
    /\ dlPc = "rejected" =>
           \A i \in DOMAIN dlChunk :
               /\ dlChunk[i] = "sent" => ENABLED DownloadRangeResponse(i)
               /\ dlChunk[i] = "buffered" => ENABLED DownloadRangeWrite(i)
    /\ ulPc = "rejected" =>
           \A i \in DOMAIN ulChunk :
               ulChunk[i] = "sent"
                   => (ENABLED UploadChunkStored(i) /\ ENABLED UploadChunkFailed(i))

\* what a failed transfer reports does not change any more
FailedOutcomeKept ==
    /\ dlPc = "rejected" => (dlPc' = "rejected" /\ dlError' = dlError)
    /\ ulPc = "rejected" => (ulPc' = "rejected" /\ ulError' = ulError)

\* C23: the failure of one range cancels no range already sent: each can
\* still run to its end, and what the siblings end with does not change the
\* outcome the call reported.
FailureCancelsNothing == [] SiblingsStayInFlight /\ [][FailedOutcomeKept]_vars

\* one range of a download failed, and every sibling has been written to the
\* destination; the call reports the failed range's error
SiblingsCompletedWitness ==
    /\ dlPc = "rejected"
    /\ Len(dlFailed) = 1
    /\ Len(dlChunk) >= 2
    /\ \A i \in DOMAIN dlChunk : i # dlFailed[1][1] => dlChunk[i] = "written"
    /\ dlError = dlFailed[1][2]


(***************************************************************************)
(* Order of the steps within one save and one restore.                     *)
(***************************************************************************)
\* the save has reached finalize: the call is next, or was made
FinalizeIssued(p) == inv[p].pc = "finalize" \/ "finalize" \in inv[p].calls

\* C24: within one save, finalize is issued only after every chunk of the
\* upload was stored; when a chunk has failed, finalize is never issued.
FinalizeAfterAllChunks ==
    \A p \in Saves :
        /\ FinalizeIssued(p) => "upload" \in inv[p].calls
        /\ (FinalizeIssued(p) /\ caVariant = "reserve-commit") =>
               /\ ulPc = "resolved"
               /\ Len(ulChunk) = Len(ulRanges) /\ Len(ulChunk) > 0
               /\ \A i \in DOMAIN ulChunk : ulChunk[i] = "resolved"
               /\ ulCache = inv[p].archive
        /\ ("upload" \in inv[p].calls /\ Len(ulFailed) > 0) => ~FinalizeIssued(p)

\* a save has made its finalize call after an upload in two chunks
FinalizeAfterChunksWitness ==
    \E p \in Saves :
        /\ caVariant = "reserve-commit"
        /\ "finalize" \in inv[p].calls
        /\ Len(ulChunk) >= 2
        /\ \A i \in DOMAIN ulChunk : ulChunk[i] = "resolved"


\* the restore has reached extract: the call is next, or was made
ExtractStarted(p) == inv[p].pc = "extract" \/ "extract" \in inv[p].calls

\* C25: in a restore that found an entry the steps run in the order
\* download, extract, scratch removal: extract starts only after the download
\* has written every range and closed the file, and the scratch directory is
\* removed only after extract has completed.
RestoreStepsInOrder ==
    \A p \in Restores :
        /\ "download" \in inv[p].calls =>
               (inv[p].lookup = "found" /\ "mkdtemp" \in inv[p].calls)
        /\ ExtractStarted(p) => "download" \in inv[p].calls
        /\ (ExtractStarted(p) /\ caVariant = "reserve-commit") =>
               /\ dlPc = "resolved" /\ dlOpen = "closed"
               /\ Len(dlChunk) = Len(dlRanges)
               /\ \A i \in DOMAIN dlChunk : dlChunk[i] = "written"
               /\ inv[p].archive = dlDest.data
        /\ inv[p].temp = "removed" =>
               /\ "extract" \in inv[p].calls
               /\ inv[p].failed = "none"
               /\ inv[p].ret = "true"
        /\ inv[p].pc = "cleanup" => "extract" \in inv[p].calls

\* a restore has downloaded an archive in two ranges, extracted it and
\* removed its scratch directory
RestoreStepsWitness ==
    \E p \in Restores :
        /\ caVariant = "reserve-commit"
        /\ inv[p].temp = "removed"
        /\ inv[p].result = "true"
        /\ Len(dlChunk) >= 2
        /\ \A i \in DOMAIN dlChunk : dlChunk[i] = "written"


(***************************************************************************)
(* Reservation: how often a run asks, and how many writers are admitted.   *)
(***************************************************************************)
\* C26: within one run reserve is issued at most once for the pair (key,
\* version); a save that was told of a conflict, or whose entry is
\* committed, does not ask again.
ReserveAtMostOnce ==
    /\ inv[MainProc].reserves + inv[PostProc].reserves <= 1
    /\ inv[MainProc].reserves = 0
    /\ \A p \in Saves :
           (inv[p].reserve = "conflict" \/ svCommittedBy = p) =>
               (inv[p].pc # "reserve" /\ inv[p].reserves = 1)

\* the post step's save was refused once and has returned false
ReserveOnceWitness ==
    /\ poPc = "done"
    /\ inv[PostProc].reserve = "conflict"
    /\ inv[PostProc].reserves = 1
    /\ inv[PostProc].result = "false"


\* the saves the remote admitted, and the saves that act as writer
Admitted == {p \in Saves : inv[p].reserve = "granted"}
Writers ==
    {p \in Saves : \/ inv[p].pc \in {"upload", "uploading", "finalize"}
                   \/ inv[p].calls \cap {"upload", "finalize"} # {}}

\* C27: of the saves that run concurrently for one (key, version) at most
\* one is admitted as writer; every other save the remote answered got the
\* conflict signal and returns false, without raising.
AtMostOneWriter ==
    /\ Cardinality(Admitted) <= 1
    /\ Writers \subseteq Admitted
    /\ \A p \in Saves :
           (inv[p].reserves = 1 /\ inv[p].reserve # "none" /\ p \notin Admitted) =>
               /\ inv[p].reserve = "conflict"
               /\ inv[p].result \in {"pending", "false"}
               /\ inv[p].error = NoError
               /\ inv[p].pc = "done" => inv[p].result = "false"

\* two saves started while the pair had no entry; one was admitted and has
\* returned true, the other was refused and has returned false
ConcurrentSavesWitness ==
    \E p, q \in Saves :
        /\ p # q
        /\ inv[p].started = "absent" /\ inv[q].started = "absent"
        /\ inv[p].reserve = "granted" /\ inv[p].result = "true"
        /\ inv[q].reserve = "conflict" /\ inv[q].result = "false"


(***************************************************************************)
(* Properties of the ranges a transfer dispatches.                         *)
(***************************************************************************)
\* the ranges with start = k * chunkSize for every k >= 0 with
\* start < totalSize, each with end = min(start + chunkSize - 1, totalSize)
RangesByMultiple(totalSize, chunkSize) ==
    { [start |-> k * chunkSize,
       end |-> IF k * chunkSize + chunkSize - 1 < totalSize
               THEN k * chunkSize + chunkSize - 1 ELSE totalSize] :
        k \in {n \in 0..totalSize : n * chunkSize < totalSize} }

\* the elements of a sequence, which has no element twice
IsListingOf(seq, set) ==
    /\ {seq[i] : i \in DOMAIN seq} = set
    /\ Len(seq) = Cardinality(set)

\* the download, or the upload, has sent its requests
DownloadDispatched ==
    dlPc \in {"transferring", "closing", "resolved"} \/ Len(dlFailed) > 0
UploadDispatched == ulPc \in {"transferring", "resolved", "rejected"}

\* C28: the ranges a download or an upload dispatches are exactly those with
\* start = k * chunkSize for every k >= 0 with start < totalSize, each with
\* end = min(start + chunkSize - 1, totalSize), one request per range; for
\* size 20 and chunkSize 8 these are the 3 requests starting at 0, 8 and 16.
DispatchedRangesAreMultiples ==
    /\ DownloadDispatched =>
           /\ IsListingOf(dlRanges, RangesByMultiple(dlFileSize, dlChunkSize))
           /\ DOMAIN dlChunk = DOMAIN dlRanges
    /\ UploadDispatched =>
           /\ IsListingOf(ulRanges, RangesByMultiple(ulFileSize, ulChunkSize))
           /\ DOMAIN ulRequests = DOMAIN ulRanges
           /\ \A i \in DOMAIN ulRanges :
                  ulRequests[i].headers["content-range"]
                      = ContentRange(ulRanges[i].start, ulRanges[i].end)
    /\ PlanRanges(20, 8) = << [start |-> 0, end |-> 7], [start |-> 8, end |-> 15],
                              [start |-> 16, end |-> 20] >>

\* a download of 3 bytes in chunks of 2 has sent its two requests; the last
\* range is 2-3
DispatchedRangesWitness ==
    /\ dlPc = "transferring"
    /\ dlFileSize = 3 /\ dlChunkSize = 2
    /\ dlRanges = << [start |-> 0, end |-> 1], [start |-> 2, end |-> 3] >>


\* the number of byte offsets a range names: `bytes=<start>-<end>` and
\* createReadStream({start, end}) include both ends
RangeSpan(range) == range.end - range.start + 1

\* C29: every range of a transfer plan spans at most chunkSize bytes, and
\* every range but the last spans exactly chunkSize bytes; the same holds of
\* the bytes each request carries.
RangeSpanWithinChunk ==
    /\ DownloadDispatched =>
           \A i \in DOMAIN dlRanges :
               /\ RangeSpan(dlRanges[i]) <= dlChunkSize
               /\ i < Len(dlRanges) => RangeSpan(dlRanges[i]) = dlChunkSize
               /\ Len(dlBuffer[i]) <= dlChunkSize
               /\ (i < Len(dlRanges) /\ dlChunk[i] \in {"buffered", "written"})
                      => Len(dlBuffer[i]) = dlChunkSize
    /\ UploadDispatched =>
           \A i \in DOMAIN ulRanges :
               /\ RangeSpan(ulRanges[i]) <= ulChunkSize
               /\ i < Len(ulRanges) => RangeSpan(ulRanges[i]) = ulChunkSize
               /\ Len(ulRequests[i].body) <= ulChunkSize
               /\ i < Len(ulRanges) => Len(ulRequests[i].body) = ulChunkSize

\* an upload of 3 bytes in chunks of 2 has sent two requests: the first
\* carries 2 bytes, the last carries 1
ShortLastRangeWitness ==
    /\ ulPc = "transferring"
    /\ ulFileSize = 3 /\ ulChunkSize = 2
    /\ Len(ulRanges) = 2
    /\ Len(ulRequests[1].body) = 2
    /\ Len(ulRequests[2].body) = 1


(***************************************************************************)
(* The destination file of a download.                                     *)
(***************************************************************************)
\* the offsets of the destination the handler of range i writes:
\* file.write(buffer, 0, buffer.length, start)
WriteExtent(i) ==
    WritePosition(dlRanges[i]) .. (WritePosition(dlRanges[i]) + Len(dlBuffer[i]) - 1)

\* the handlers that hold a buffer: being written, or written
Writing == {i \in DOMAIN dlChunk : dlChunk[i] \in {"buffered", "written"}}

\* no two handlers write the same offset, and each writes inside its range
WritesAreDisjoint ==
    /\ \A i, j \in Writing : i # j => WriteExtent(i) \cap WriteExtent(j) = {}
    /\ \A i \in Writing : WriteExtent(i) \subseteq dlRanges[i].start .. dlRanges[i].end
    /\ Writing # {} => dlOpen = "open" \/ dlPc \in {"closing", "resolved"}

\* the file is opened from the call's one fsPromises.open and never again,
\* and the ranges are sent, answered and written only while it is open
OpenedOnce ==
    /\ (dlOpen' = "open" /\ dlOpen # "open") => (dlOpen = "pending" /\ dlChunk = << >>)
    /\ dlOpen \in {"open", "closed"} => dlOpen' # "pending"
    /\ dlChunk' # dlChunk => dlOpen = "open"

\* C30: during a download the destination file is opened once, and no two
\* concurrent range handlers write to overlapping byte offsets of it.
DestinationWritesDisjoint == [] WritesAreDisjoint /\ [][OpenedOnce]_vars

\* the two ranges of a download of 3 bytes were written, at offsets 0-1 and
\* 2, and the file is closed
DisjointWritesWitness ==
    /\ dlPc = "resolved" /\ dlOpen = "closed"
    /\ Len(dlRanges) = 2
    /\ WriteExtent(1) = 0..1 /\ WriteExtent(2) = 2..2
    /\ dlDest.data = svData


\* the ranges whose response has arrived without an octet-stream content type
NotOctetStream ==
    {i \in DOMAIN dlType : dlType[i] \notin {"pending", "application/octet-stream"}}

\* C31: if the response of any range of a download does not carry an
\* octet-stream content type, the whole download fails: it has rejected, and
\* the bytes of that response are not written.
NonOctetResponseFailsDownload ==
    \A i \in NotOctetStream :
        /\ dlPc = "rejected"
        /\ dlError # NoError
        /\ dlChunk[i] = "rejected"
        /\ dlBuffer[i] = << >>

\* a 206 response with content type text/html arrived for the second range
\* after the first range was written: the download has failed with the
\* assertion's error
NonOctetResponseWitness ==
    /\ Len(dlChunk) = 2
    /\ dlChunk[1] = "written"
    /\ dlType[2] = "text/html"
    /\ dlPc = "rejected"
    /\ dlError = MkError("expected content type to be 'application/octet-stream', but instead got 'text/html'")

(***************************************************************************)
(* The child processes of createArchive and extractArchive: two processes  *)
(* joined by a pipe, each watched by waitProcess, both promises given to   *)
(* Promise.all.                                                            *)
(***************************************************************************)
ProcIds == 1..2
\* the most stderr chunks one process writes
MaxStderr == 2
StderrChunks == {" tar: ", "oops\n", "\n"}

\* the code of "close" is null when a signal ended the process
NullCode == -1
ExitCodes == {0, 2, NullCode}
\* the code of the "close" that follows a failed spawn is the negated errno
ErrnoCodes == {-2}

\* proc.spawnargs: the command and its arguments
SpawnArgs(op, i) ==
    IF op = "createArchive"
    THEN IF i = 1 THEN <<"tar", "-cf", "-", "-P", "a-file">>
                  ELSE <<"zstd", "-T0", "-o", "cache.tar.zst">>
    ELSE IF i = 1 THEN <<"zstd", "-d", "-T0", "-c", "cache.tar.zst">>
                  ELSE <<"tar", "-xf", "-", "-P">>

\* args.join(" ")
RECURSIVE JoinArgs(_)
JoinArgs(args) ==
    IF Len(args) = 0 THEN ""
    ELSE IF Len(args) = 1 THEN args[1]
    ELSE args[1] \o " " \o JoinArgs(Tail(args))

\* Buffer.concat(chunks).toString()
RECURSIVE ConcatChunks(_)
ConcatChunks(chunks) ==
    IF Len(chunks) = 0 THEN "" ELSE chunks[1] \o ConcatChunks(Tail(chunks))

\* the message of the earlier waitChildProcess: the output as captured, on a
\* line of its own even when there is none
ProcessErrorUntrimmed(args, code, output) ==
    "Process failed: " \o JoinArgs(args) \o "\n" \o output

\* the message new ProcessError(args, code, output) builds
ProcessErrorMessage(args, code, output) ==
    LET coded == IF code # NullCode
                 THEN "Process failed" \o " (" \o ToString(code) \o ")"
                 ELSE "Process failed"
        message == coded \o ": " \o JoinArgs(args)
        trimmedOutput == Trim(output)
    IN IF trimmedOutput # "" THEN message \o "\n" \o trimmedOutput ELSE message

\* the error of the "error" event of a command that could not be spawned
SpawnError(args) == MkError("spawn " \o args[1] \o " ENOENT")

Pending == [state |-> "pending", error |-> NoError]
Resolved == [state |-> "resolved", error |-> NoError]
Rejected(err) == [state |-> "rejected", error |-> err]

\* what the "close" handler of waitProcess does with the promise
WaitProcess(args, code, chunks) ==
    IF code = 0 THEN Resolved
    ELSE Rejected([name |-> "ProcessError",
                   message |-> ProcessErrorMessage(args, code, ConcatChunks(chunks))])

\* Promise.all holds both promises from the start, so a rejection of either
\* rejects it at once. AwaitedInTurn is `await waitProcess(a); await
\* waitProcess(b)`, which looks at the second promise once the first resolved.
AwaitedInTurn(i, waits) == i = 1 \/ waits[1].state = "resolved"
AwaitedTogether(i, waits) == TRUE

\* the promise of waitProcess(i) settles, and Promise.all with it
WaitSettles(i, outcome) ==
    /\ prWait' = [prWait EXCEPT ![i] = outcome]
    /\ prAll' =
         IF outcome.state = "rejected"
         THEN IF AwaitedTogether(i, prWait)
              THEN Rejected(FirstRejection(prAll.state = "rejected",
                                           prAll.error, outcome.error))
              ELSE prAll
         ELSE IF \A j \in ProcIds \ {i} : prWait[j].state = "resolved"
              THEN Resolved
              ELSE prAll

\* proc.stderr.on("data", (chunk) => chunks.push(chunk))
ProcStderr(i) ==
    /\ prOp # "none"
    /\ prProc[i].state = "running"
    /\ Len(prProc[i].chunks) < MaxStderr
    /\ \E c \in StderrChunks :
         prProc' = [prProc EXCEPT ![i].chunks = Append(@, c)]
    /\ UNCHANGED <<prOp, prWait, prAll>>
    /\ UNCHANGED <<arFs, arSaved, arPaths, arArchive, arPc>>
    /\ UNCHANGED <<svVars, dlVars, ulVars, rsVars, caVars, mnVars>>

\* proc.on("error", reject): the command could not be spawned
ProcSpawnFails(i) ==
    /\ prOp # "none"
    /\ prProc[i].state = "running"
    /\ prProc[i].chunks = << >>
    /\ prProc' = [prProc EXCEPT ![i].state = "errored"]
    /\ WaitSettles(i, Rejected(SpawnError(SpawnArgs(prOp, i))))
    /\ UNCHANGED prOp
    /\ UNCHANGED <<arFs, arSaved, arPaths, arArchive, arPc>>
    /\ UNCHANGED <<svVars, dlVars, ulVars, rsVars, caVars, mnVars>>

\* proc.on("close", (code) => ...): the process ended and its streams closed
ProcClose(i) ==
    /\ prOp # "none"
    /\ prProc[i].state \in {"running", "errored"}
    /\ \E code \in (IF prProc[i].state = "running" THEN ExitCodes ELSE ErrnoCodes) :
         /\ prProc' = [prProc EXCEPT ![i].state = "closed", ![i].code = code]
         /\ IF prWait[i].state = "pending"
            THEN WaitSettles(i, WaitProcess(SpawnArgs(prOp, i), code, prProc[i].chunks))
            ELSE UNCHANGED <<prWait, prAll>>
    /\ UNCHANGED prOp
    /\ UNCHANGED <<arFs, arSaved, arPaths, arArchive, arPc>>
    /\ UNCHANGED <<svVars, dlVars, ulVars, rsVars, caVars, mnVars>>

ProcessNext == \E i \in ProcIds : ProcStderr(i) \/ ProcSpawnFails(i) \/ ProcClose(i)

\* createArchive or extractArchive has spawned its two processes
ProcessInit ==
    /\ prOp \in {"createArchive", "extractArchive"}
    /\ prProc = [i \in ProcIds |-> [state |-> "running", code |-> NullCode, chunks |-> << >>]]
    /\ prWait = [i \in ProcIds |-> Pending]
    /\ prAll = Pending
    /\ arFs = << >> /\ arSaved = << >> /\ arPaths = {} /\ arArchive = << >>
    /\ arPc = "idle"
    /\ mnPc = "idle" /\ mnOutput = "unset" /\ mnState = "unset"
    /\ poPc = "idle" /\ poEnv = ""
    /\ svEntry = "absent" /\ svData = << >> /\ svCommittedBy = 0
    /\ dlChunkSize = 1 /\ dlPc = "idle" /\ dlOpen = "none" /\ dlProbe = "none"
    /\ dlFileSize = 0 /\ dlDest = NoFile /\ dlRanges = << >>
    /\ dlChunk = << >> /\ dlBuffer = << >> /\ dlError = NoError /\ dlFailed = << >> /\ dlType = << >>
    /\ ulFile = << >> /\ ulFileSize = 0 /\ ulChunkSize = 1 /\ ulPc = "idle"
    /\ ulRanges = << >> /\ ulChunk = << >> /\ ulRequests = << >>
    /\ ulCache = << >> /\ ulError = NoError /\ ulFailed = << >>
    /\ rsCall = "none" /\ rsRes = [statusCode |-> 0] /\ rsDone = FALSE
    /\ rsOut = Return(JsNull)
    /\ caVariant = "none" /\ fsFile = NoFile /\ fsInit = NoFile
    /\ inv = << >>

SpecProcess == ProcessInit /\ [][ProcessNext]_vars

ProcFailed(i) ==
    \/ prProc[i].state = "errored"
    \/ prProc[i].state = "closed" /\ prProc[i].code # 0

\* C32: createArchive and extractArchive wait for both processes at once: as
\* soon as either process fails to spawn or closes with a code other than 0
\* the operation has failed, whatever the other process is doing, and the
\* operation has succeeded exactly when both processes closed with code 0.
BothProcessesAwaited ==
    prOp # "none" =>
        /\ \A i \in ProcIds : ProcFailed(i) => prAll.state = "rejected"
        /\ prAll.state = "resolved" <=>
             \A i \in ProcIds : prProc[i].state = "closed" /\ prProc[i].code = 0
        /\ prAll.state = "rejected" => \E i \in ProcIds : ProcFailed(i)

\* the second process failed while the first one is still running
SecondProcessFailedWitness ==
    /\ prOp = "extractArchive"
    /\ prProc[1].state = "running"
    /\ prProc[2].state = "closed" /\ prProc[2].code = 2
    /\ prAll.state = "rejected"
    /\ prAll.error.name = "ProcessError"

\* the command lines of the four processes, as a reader of the error sees them
CommandLineOf(op, i) ==
    IF op = "createArchive"
    THEN IF i = 1 THEN "tar -cf - -P a-file" ELSE "zstd -T0 -o cache.tar.zst"
    ELSE IF i = 1 THEN "zstd -d -T0 -c cache.tar.zst" ELSE "tar -xf - -P"

OnlyWhiteSpace(str) == \A k \in 1..Len(str) : SubSeq(str, k, k) \in WhiteSpace

\* str without the white space around it: what is left of str once a prefix
\* and a suffix of white space are taken away and neither end is white space
TrimsOf(str) ==
    {SubSeq(str, a + 1, Len(str) - b) :
        <<a, b>> \in {ab \in (0..Len(str)) \X (0..Len(str)) :
            /\ ab[1] + ab[2] <= Len(str)
            /\ OnlyWhiteSpace(SubSeq(str, 1, ab[1]))
            /\ OnlyWhiteSpace(SubSeq(str, Len(str) - ab[2] + 1, Len(str)))
            /\ ab[1] + ab[2] < Len(str) =>
                  /\ SubSeq(str, ab[1] + 1, ab[1] + 1) \notin WhiteSpace
                  /\ SubSeq(str, Len(str) - ab[2], Len(str) - ab[2]) \notin WhiteSpace}}

\* the processes that ran and closed with a code other than 0
ClosedWithFailure == {i \in DOMAIN prProc : prProc[i].code \in ExitCodes \ {0}
                                            /\ prProc[i].state = "closed"}

Returned == {p \in DOMAIN inv : inv[p].result \in {"true", "false"}}

\* the cached path changes only by the extract of a restore
OnlyExtractWritesDisk ==
    fsFile' # fsFile =>
        \E p \in Restores : inv[p].pc = "extract" /\ inv'[p].pc = "cleanup"

\* C34: when a save or a restore has returned true or false, a refused
\* reservation included, the scratch directory it made is removed, and no step
\* of either operation but the extract of a restore changes the local disk.
ReturnLeavesNoScratch ==
    /\ [](\A p \in Returned : inv[p].temp # "exists")
    /\ [][OnlyExtractWritesDisk]_vars

\* a save that was refused and a second invocation that returned true, each
\* after making and removing its scratch directory
RefusedSaveCleanedWitness ==
    \E p \in Saves : \E q \in DOMAIN inv :
        /\ inv[p].reserve = "conflict" /\ inv[p].result = "false"
        /\ inv[p].temp = "removed"
        /\ inv[q].result = "true" /\ inv[q].temp = "removed"

\* the invocations that raised after mkdtemp
RaisedAfterMkdtemp ==
    {p \in DOMAIN inv : inv[p].result = "raised" /\ "mkdtemp" \in inv[p].calls}

\* C35: when a save or a restore raises after it made its scratch directory
\* (compress, stat, reserve, upload, finalize, download or extract failed),
\* the scratch directory is removed by the time the caller has the error.
RaiseLeavesNoScratch ==
    \A p \in RaisedAfterMkdtemp : inv[p].temp = "removed"

(***************************************************************************)
(* The destination file of a download: its handle and its content when the *)
(* call fails.                                                             *)
(***************************************************************************)
DownloadSettled == dlPc \in {"resolved", "rejected"}

\* C36: a download that has settled, resolved or rejected (by the size probe
\* or by a range), holds no open handle of the destination file.
SettledDownloadClosedFile ==
    DownloadSettled => dlOpen # "open"

\* C39: when the size probe of a download has failed the destination path is
\* as it was before the call: not created when it was absent, not truncated
\* when it held a file.
FailedProbeLeavesDestination ==
    dlProbe = "failed" => dlDest \in {NoFile, StaleFile}

\* C40: a size probe answered with 200 and no content-length that parses
\* makes the download fail: the call does not resolve with no range fetched
\* and an empty destination file.
UnparsableSizeFailsDownload ==
    (dlProbe = "ok" /\ dlFileSize = NaN) => dlPc # "resolved"

(***************************************************************************)
(* A restore while a save of the same key and version is under way.        *)
(***************************************************************************)
\* the restores whose lookup the remote answered
LookedUp == {p \in Restores : inv[p].lookup # "none"}

\* a restore calls download only for an entry that is finalized
DownloadsFinalizedOnly ==
    \A p \in Restores :
        ("download" \in inv'[p].calls /\ "download" \notin inv[p].calls)
            => svEntry = "committed"

SpecCacheLive == CacheInit /\ [][CacheNext]_vars /\ WF_vars(CacheNext)

Settled(p) == inv[p].result \in {"true", "false", "raised"}

\* C38: when every request is answered and every process exits, every save
\* and every restore eventually returns or raises.
EveryInvocationSettles ==
    \A p \in Procs : <>Settled(p)

\* a save returned true and the other invocation raised
InvocationsSettledWitness ==
    \E p \in Saves : \E q \in DOMAIN inv :
        /\ inv[p].result = "true"
        /\ inv[q].result = "raised"
        /\ inv[p].pc = "done" /\ inv[q].pc = "done"

============================================================================
